---------------------------- MODULE Spec2Model ----------------------------
(***************************************************************************)
(* SceneIt client: the swipe session (MovieSwiper + SearchPage), the       *)
(* session decision lists and favourite set owned by App, the move and     *)
(* favourite handlers of LikedMoviesView, the preference auto-save, the    *)
(* rating dialogs of the list views and HomePage's preload on hover.       *)
(*                                                                         *)
(* React semantics used throughout: a discrete event (click, mouse, touch) *)
(* is handled against the state of the last committed render and its       *)
(* state updates are flushed before the next event is handled, so one      *)
(* handler invocation is one atomic action.  An async handler is split at  *)
(* each await: the part before the await is one action, the continuation   *)
(* another.  A setTimeout callback is an action enabled while its timer is *)
(* pending; it closes over the values of the render that created it.       *)
(***************************************************************************)
EXTENDS Integers, Sequences, FiniteSets, TLC

\* ----------------------------------------------------------------- bounds
MaxId == 2            \* catalog IDs are 1..MaxId
MaxLen == 2           \* longest queue a search returns
MaxSearches == 2      \* searches submitted in one behaviour
MaxFinishCalls == 3   \* cap on the counted onFinish invocations
MaxInflight == 2      \* cap on concurrently pending remote move/favourite calls
MaxTimers == 2        \* cap on concurrently pending swipe timeouts
MaxTicks == 3         \* cap on the counted quiet time, in ticks
MaxPref == 2          \* preference objects are 0..MaxPref
MaxRating == 2        \* ratings are 1..MaxRating (0: no rating)
MaxWatchCalls == 2    \* cap on the logged watched / rating calls
MaxPreloads == 3       \* cap on the preloads started in one behaviour
MaxVote == 2          \* vote averages are 1..MaxVote (0: none)
MaxCards == 2         \* longest movie list given to a filtered view
MaxFields == 3        \* filter fields present in the records of one list
MaxKeyCards == 3      \* longest list of the keyed render
MaxCacheTimers == 2   \* cap on the pending expiry timeouts of the cache

\* ------------------------------------------------------ program constants
Threshold == 100      \* swipe threshold in px
DebounceTicks == 2    \* the 1000 ms auto-save delay, in ticks of 500 ms
DefaultMaxRating == 10 \* upper end of the rating range without any vote
EpochYear == 1970     \* new Date(0).getFullYear(), the year of a missing date
ExpiryTicks == 3      \* the default expiryMs of 30000, in ticks of 10 s

IDs == 1..MaxId
NoMovie == 0
StartXs == {20}
MoveXs == {-130, 20, 170}
MoveYs == {-150, 0}
Directions == {"left", "right", "up"}

VARIABLES
  \* ---- App (part_001)
  user,                  \* logged in?
  route,                 \* "home" | "search" | "summary"
  sessionLikedMovies,    \* Seq(IDs)
  sessionDislikedMovies, \* Seq(IDs)
  favoriteMovieIds,      \* SUBSET IDs
  inflight,              \* pending remote move / favourite calls
  \* ---- SearchPage
  loading, movies, shouldShowRating, showGameRating, showErrorModal,
  ratingPending,         \* handleSubmitRating awaits its POST
  searches,              \* number of searches submitted (SearchPage instances)
  \* ---- MovieSwiper
  currentIndex, swipeDirection, isDragging, dragOffset, startPos,
  isAnimating, showRatingModal, pendingWatchMovie,
  swipeTimers,           \* pending 400 ms timeouts of handleSwipe
  \* ---- LikedMoviesView (summary)
  movingIds, processingIds, coolDowns,
  \* ---- preferences (App)
  authPc,                \* position of checkAuthStatus
  preferencesLoaded, preferences,
  saveTimer,             \* the auto-save effect's pending setTimeout
  serverPrefs,           \* the preference object stored by the server
  showProfileModal,
  logoutPc, profilePc,   \* positions of handleLogout / handleViewProfile
  unloaded,              \* the page has been unloaded
  \* ---- rating dialogs (LikedMoviesView, DislikedMoviesView, MovieModal)
  watchProps,            \* which of onWatch / onUpdateWatchedRating the parent passes
  watchedMovies,         \* the view's Map movieId -> rating (0: no entry)
  ratingMovieId,         \* movie of the view's rating dialog, or NoMovie
  listShowRatingModal,   \* the view's showRatingModal
  ratingSubmits,         \* LikedMoviesView.handleRatingSubmit calls at their await
  selectedMovie,         \* movie of the open MovieModal, or NoMovie
  localUserRating,       \* MovieModal's rating of that movie (0: undefined)
  modalShowRatingModal,  \* MovieModal's showRatingModal
  watchLog,              \* onWatch / onUpdateWatchedRating calls made (history)
  \* ---- HomePage preload
  isPreloading,
  preloadAbortController,\* number of the current AbortController (0: null)
  preloads,              \* handlePreloadHover calls at one of their awaits
  movieCache,            \* entries of movieCacheService
  \* ---- filter sidebar and keyed render (LikedMoviesView, DislikedMoviesView)
  listMovies,            \* the movies prop of the view
  showFilters,           \* the showFilters prop
  group,                 \* the group rendered: "movie" or "fav"
  selectedGenres, selectedYearRange, selectedRatingRange, selectedAgeRatings,
  selectedKeywords, selectedLanguages, selectedDirectors, sortBy,
  \* ---- movieCacheService with its clock
  cacheMap,              \* this.cache, the Map: per key the entry stored
  expiryTimers,          \* pending setTimeout callbacks of setCachedMovies
  written,               \* per key: the last list stored and its age (history)
  \* ---- observation (history) variables
  finishCalls,           \* onFinish invocations of the current queue
  dispatched,            \* per queue position: decisions dispatched by this swiper
  remoteLog,             \* remote like/dislike mutations issued since the page mounted
  clickSuppressed,       \* a button click was rejected by the busy guard
  pointerRejected,       \* a pointer event arrived while a commit was in flight
  lastOp,                \* the last completed remote continuation
  lastSend,              \* the last preference write issued
  quiet,                 \* ticks since the last preference mutation
  mutatedUnloaded,       \* a mutation happened while preferencesLoaded = FALSE
  cancelled,             \* a mutation cancelled a running timer since the last auto-save
  flushes                \* per flush point: what its last run did

appVars == <<user, route, sessionLikedMovies, sessionDislikedMovies,
             favoriteMovieIds, inflight>>
searchVars == <<loading, movies, shouldShowRating, showGameRating,
                showErrorModal, ratingPending, searches>>
swiperVars == <<currentIndex, swipeDirection, isDragging, dragOffset, startPos,
                isAnimating, showRatingModal, pendingWatchMovie>>
viewVars == <<movingIds, processingIds, coolDowns>>
prefVars == <<authPc, preferencesLoaded, preferences, saveTimer, serverPrefs,
              showProfileModal, logoutPc, profilePc, unloaded>>
swipeObs == <<finishCalls, dispatched, remoteLog,
              clickSuppressed, pointerRejected, lastOp>>
prefObs == <<lastSend, quiet, mutatedUnloaded, cancelled, flushes>>
ratingVars == <<watchProps, watchedMovies, ratingMovieId,
                listShowRatingModal, ratingSubmits,
                selectedMovie, localUserRating, modalShowRatingModal,
                watchLog>>
preloadVars == <<isPreloading, preloadAbortController, preloads, movieCache>>
filterVars == <<listMovies, showFilters, group, selectedGenres,
                selectedYearRange, selectedRatingRange, selectedAgeRatings,
                selectedKeywords, selectedLanguages, selectedDirectors, sortBy>>
cacheVars == <<cacheMap, expiryTimers, written>>
pageVars == <<ratingVars, preloadVars, filterVars, cacheVars>>
vars == <<appVars, searchVars, swiperVars, swipeTimers, viewVars, prefVars,
          swipeObs, prefObs, pageVars>>

\* ---------------------------------------------------------------- helpers
Abs(n) == IF n < 0 THEN -n ELSE n

RECURSIVE SeqFilter(_, _)
\* Array.prototype.filter(m => m.tmdbId.toString() !== movieId)
SeqFilter(s, id) ==
  IF s = <<>> THEN <<>>
  ELSE IF Head(s) = id THEN SeqFilter(Tail(s), id)
       ELSE <<Head(s)>> \o SeqFilter(Tail(s), id)

Has(s, id) == \E i \in 1..Len(s) : s[i] = id
IdSet(s) == {s[i] : i \in 1..Len(s)}

\* Queues a search can return: non-empty, duplicate-free, at most MaxLen long.
Queues ==
  {q \in UNION {[1..n -> IDs] : n \in 1..MaxLen} :
      \A i, j \in 1..Len(q) : i # j => q[i] # q[j]}

NoDispatch == [like |-> 0, dislike |-> 0, watch |-> 0, rel150 |-> FALSE]
NoOp == [op |-> "none", id |-> NoMovie, ok |-> FALSE, wasFav |-> FALSE]
NoSend ==
  [kind |-> "none", prefs |-> 0, loaded |-> FALSE, quiet |-> 0,
   cancelled |-> FALSE]
NoTimer == [armed |-> FALSE, left |-> 0, prefs |-> 0]
FlushPoints == {"logout", "profile", "unload"}
NoSelection == [id |-> NoMovie, userRating |-> 0]
NoFlush == [user |-> FALSE, sent |-> FALSE, early |-> FALSE, acted |-> FALSE]


\* ------------------------------------------------------------------- Init
SwiperInitial ==
  /\ currentIndex = 0
  /\ swipeDirection = "none"
  /\ isDragging = FALSE
  /\ dragOffset = [x |-> 0, y |-> 0]
  /\ startPos = [x |-> 0, y |-> 0]
  /\ isAnimating = FALSE
  /\ showRatingModal = FALSE
  /\ pendingWatchMovie = NoMovie

\* useState initialisers of a freshly mounted MovieSwiper
SwiperMount ==
  /\ currentIndex' = 0
  /\ swipeDirection' = "none"
  /\ isDragging' = FALSE
  /\ dragOffset' = [x |-> 0, y |-> 0]
  /\ startPos' = [x |-> 0, y |-> 0]
  /\ isAnimating' = FALSE
  /\ showRatingModal' = FALSE
  /\ pendingWatchMovie' = NoMovie

\* useState initialisers of a freshly mounted LikedMoviesView; timers of the
\* unmounted instance only touch that instance's discarded state.
Orphan(reqs) == [i \in 1..Len(reqs) |-> [reqs[i] EXCEPT !.live = FALSE]]

ViewMount ==
  /\ movingIds' = {}
  /\ processingIds' = {}
  /\ coolDowns' = {}
  /\ inflight' = Orphan(inflight)

ObsReset ==
  /\ remoteLog' = <<>>
  /\ finishCalls' = 0
  /\ dispatched' = [i \in 1..MaxLen |-> NoDispatch]
  /\ clickSuppressed' = FALSE
  /\ pointerRejected' = FALSE

PrefsIdle ==
  /\ authPc = "done"
  /\ preferencesLoaded = TRUE
  /\ preferences = 0
  /\ saveTimer = NoTimer
  /\ serverPrefs = 0
  /\ showProfileModal = FALSE
  /\ logoutPc = "idle"
  /\ profilePc = "idle"
  /\ unloaded = FALSE
  /\ lastSend = NoSend
  /\ quiet = 0
  /\ mutatedUnloaded = FALSE
  /\ cancelled = FALSE
  /\ flushes = [k \in FlushPoints |-> NoFlush]

\* No rating dialog is open and no preload has been started.
\* The filter state of a list view as its useState calls create it
SelectionsIdle ==
  /\ selectedGenres = {}
  /\ selectedYearRange = <<>>
  /\ selectedRatingRange = <<>>
  /\ selectedAgeRatings = {}
  /\ selectedKeywords = {}
  /\ selectedLanguages = {}
  /\ selectedDirectors = {}
  /\ sortBy = "title"

FiltersIdle ==
  /\ listMovies = <<>>
  /\ showFilters = FALSE
  /\ group = "movie"
  /\ SelectionsIdle

DialogsIdle ==
  /\ watchProps = [onWatch |-> FALSE, onUpdateWatchedRating |-> FALSE]
  /\ watchedMovies = [id \in IDs |-> 0]
  /\ ratingMovieId = NoMovie
  /\ listShowRatingModal = FALSE
  /\ ratingSubmits = <<>>
  /\ selectedMovie = NoSelection
  /\ localUserRating = 0
  /\ modalShowRatingModal = FALSE
  /\ watchLog = <<>>
  /\ isPreloading = FALSE
  /\ preloadAbortController = 0
  /\ preloads = <<>>
  /\ movieCache = {}

\* The cache service as its module creates it: an empty Map, no timer
CacheKeys == {"loading-carousel-movies", "search"}
NoEntry == [list |-> 0, age |-> 0]
CacheIdle ==
  /\ cacheMap = [k \in CacheKeys |-> NoEntry]
  /\ expiryTimers = <<>>
  /\ written = [k \in CacheKeys |-> NoEntry]

PagesIdle == DialogsIdle /\ FiltersIdle /\ CacheIdle

\* The session specification starts on the home page of a logged-in user
\* without favourites whose preferences are loaded.
Init ==
  /\ user = TRUE
  /\ route = "home"
  /\ sessionLikedMovies = <<>>
  /\ sessionDislikedMovies = <<>>
  /\ favoriteMovieIds = {}
  /\ inflight = <<>>
  /\ loading = FALSE
  /\ movies = <<>>
  /\ shouldShowRating = FALSE
  /\ showGameRating = FALSE
  /\ showErrorModal = FALSE
  /\ ratingPending = FALSE
  /\ searches = 0
  /\ SwiperInitial
  /\ swipeTimers = <<>>
  /\ movingIds = {}
  /\ processingIds = {}
  /\ coolDowns = {}
  /\ PrefsIdle
  /\ PagesIdle
  /\ finishCalls = 0
  /\ dispatched = [i \in 1..MaxLen |-> NoDispatch]
  /\ remoteLog = <<>>
  /\ clickSuppressed = FALSE
  /\ pointerRejected = FALSE
  /\ lastOp = NoOp

\* ------------------------------------------------------------- SearchPage
SwiperMounted == route = "search" /\ ~loading /\ movies # <<>>
SwiperActive == SwiperMounted /\ currentIndex < Len(movies)

\* HomePage.handleSubmitPreferences: save the preferences, then navigate to
\* /search, which mounts a new SearchPage (loading = true) and starts
\* fetchMovies.  The session lists are left alone.
HandleSubmitPreferences ==
  /\ route = "home" /\ user
  /\ searches < MaxSearches
  /\ serverPrefs' = IF preferencesLoaded THEN preferences ELSE serverPrefs
  /\ lastSend' = IF preferencesLoaded
                   THEN [kind |-> "search", prefs |-> preferences,
                         loaded |-> preferencesLoaded, quiet |-> quiet,
                         cancelled |-> cancelled]
                   ELSE lastSend
  /\ route' = "search"
  /\ loading' = TRUE
  /\ movies' = <<>>
  /\ shouldShowRating' = FALSE
  /\ showGameRating' = FALSE
  /\ showErrorModal' = FALSE
  /\ searches' = searches + 1
  /\ SwiperMount /\ ViewMount /\ ObsReset
  /\ UNCHANGED <<user, sessionLikedMovies, sessionDislikedMovies,
                 favoriteMovieIds,
                 swipeTimers, authPc, preferencesLoaded, preferences, saveTimer,
                 showProfileModal, logoutPc, profilePc, unloaded, quiet,
                 mutatedUnloaded, cancelled, flushes, ratingPending, lastOp,
                 pageVars>>

\* fetchMovies after its await, one outcome per branch of the code.
FetchOutcomes == {"movies", "unavailable", "httpError", "empty", "throw"}

FetchMoviesResolve(outcome, q) ==
  /\ route = "search" /\ loading
  /\ movies' = IF outcome = "movies" THEN q ELSE movies
  /\ showErrorModal' = (outcome \in {"unavailable", "throw"})
  /\ route' = IF outcome \in {"httpError", "empty"} THEN "home" ELSE route
  /\ loading' = FALSE
  \* the 503 branch returns inside try: finally still runs
  /\ shouldShowRating' = TRUE
  /\ UNCHANGED <<user, sessionLikedMovies, sessionDislikedMovies,
                 favoriteMovieIds, inflight,
                 showGameRating, ratingPending, searches, swiperVars, swipeTimers, viewVars,
                 prefVars, swipeObs, prefObs, pageVars>>


\* SearchPage's render: the loading screen while loading, nothing at all
\* while movies is empty, and only then the fragment that holds the
\* "Service Unavailable" ErrorModal (rendered when showErrorModal is set).
ErrorModalShown ==
  /\ route = "search"
  /\ ~loading
  /\ movies # <<>>
  /\ showErrorModal

\* The ErrorModal's onClose: hide the dialog and navigate home.  Only a
\* rendered dialog can be closed.
ErrorModalClose ==
  /\ ErrorModalShown
  /\ showErrorModal' = FALSE
  /\ route' = "home"

\* ------------------------------------------------------- App like / dislike
\* App.handleLike, the state update: append unless the ID is already there.
AddUnique(list, id) == IF Has(list, id) THEN list ELSE Append(list, id)

\* One entry of remoteLog: the fetch of handleLike / handleDislike with the
\* endpoint, the ID in its body, whether the handler's list update had
\* already put the ID into its session list when fetch was called, how the
\* fetch settled and whether the catch block logged it.
Call(op, id, list) ==
  [op |-> op, id |-> id, local |-> Has(list, id), status |-> "pending",
   logged |-> FALSE]

\* A handler that posts every decision to the like endpoint
IssueAlwaysLike(op, id, list) ==
  IF user THEN Append(remoteLog, Call("like", id, list)) ELSE remoteLog

\* The remote mutation of App.handleLike / handleDislike is issued only for a
\* logged-in user.
Issue(op, id, list) ==
  IF user THEN Append(remoteLog, Call(op, id, list)) ELSE remoteLog

\* A handler that calls fetch before its setSession... call
ListAtIssueStale(before, after) == before

\* The session list as it stands when fetch is called: the statement
\* setSessionLikedMovies(...) / setSessionDislikedMovies(...) comes first in
\* the handler, `if (user) { await fetch(...) }` second.
ListAtIssue(before, after) == after

HandleLike(id) ==
  LET updated == AddUnique(sessionLikedMovies, id) IN
  /\ sessionLikedMovies' = updated
  /\ remoteLog' = Issue("like", id, ListAtIssue(sessionLikedMovies, updated))
  /\ UNCHANGED sessionDislikedMovies

HandleDislike(id) ==
  LET updated == AddUnique(sessionDislikedMovies, id) IN
  /\ sessionDislikedMovies' = updated
  /\ remoteLog' =
       Issue("dislike", id, ListAtIssue(sessionDislikedMovies, updated))
  /\ UNCHANGED sessionLikedMovies

\* ------------------------------------------------------------- MovieSwiper
\* A handleSwipe without its busy guard
SwipeBusyUnguarded == FALSE

\* handleSwipe's busy guard
SwipeBusy == isAnimating \/ swipeDirection # "none"

\* A gesture start that ignores the pending commit
StartRejectedNever == FALSE

\* handleMouseDown / handleTouchStart guard
StartRejected == swipeDirection # "none"

\* handleMouseMove / handleMouseUp / handleTouchMove / handleTouchEnd guard
DragIgnored == ~isDragging \/ swipeDirection # "none"

\* A release classification with the horizontal sign inverted
ReleaseDecisionInverted(off) ==
  IF off.y < -Threshold /\ Abs(off.x) < Threshold THEN "up"
  ELSE IF Abs(off.x) > Threshold
         THEN (IF off.x > 0 THEN "left" ELSE "right")
         ELSE "cancel"

\* Classification of a release (handleMouseUp / handleTouchEnd)
ReleaseDecision(off) ==
  IF off.y < -Threshold /\ Abs(off.x) < Threshold THEN "up"
  ELSE IF Abs(off.x) > Threshold
         THEN (IF off.x > 0 THEN "right" ELSE "left")
         ELSE "cancel"

NewTimer(direction, origin) ==
  [dir |-> direction, movie |-> movies[currentIndex + 1], idx |-> currentIndex,
   inst |-> searches, origin |-> origin, ox |-> dragOffset.x]

\* handleSwipe: returns when busy; otherwise raises the flags and arms the
\* 400 ms timeout, which closes over direction and currentMovie.
HandleSwipe(direction, origin) ==
  IF SwipeBusy
    THEN UNCHANGED <<isAnimating, swipeDirection, swipeTimers>>
    ELSE /\ Len(swipeTimers) < MaxTimers
         /\ isAnimating' = TRUE
         /\ swipeDirection' = direction
         /\ swipeTimers' = Append(swipeTimers, NewTimer(direction, origin))

PointerFrame ==
  UNCHANGED <<appVars, searchVars, viewVars, prefVars, prefObs, pageVars, finishCalls,
              dispatched, remoteLog, lastOp>>

\* The like / dislike / watched buttons: onClick={() => handleSwipe(dir)}
ButtonClick(direction) ==
  /\ SwiperActive
  /\ HandleSwipe(direction, "button")
  /\ isDragging' = (IF SwipeBusy THEN isDragging ELSE FALSE)
  /\ clickSuppressed' = SwipeBusy
  /\ pointerRejected' = (pointerRejected /\ SwipeBusy)
  /\ UNCHANGED <<currentIndex, dragOffset, startPos, showRatingModal,
                 pendingWatchMovie>>
  /\ PointerFrame

PointerDown(cx, cy) ==
  /\ SwiperActive
  /\ IF StartRejected
       THEN UNCHANGED <<isDragging, startPos>>
       ELSE /\ isDragging' = TRUE
            /\ startPos' = [x |-> cx, y |-> cy]
  /\ pointerRejected' = (pointerRejected \/ StartRejected)
  /\ UNCHANGED <<currentIndex, swipeDirection, dragOffset, isAnimating,
                 showRatingModal, pendingWatchMovie, swipeTimers,
                 clickSuppressed>>
  /\ PointerFrame

PointerMove(cx, cy) ==
  /\ SwiperActive
  /\ IF DragIgnored
       THEN UNCHANGED dragOffset
       ELSE dragOffset' = [x |-> cx - startPos.x, y |-> cy - startPos.y]
  /\ pointerRejected' = (pointerRejected \/ swipeDirection # "none")
  /\ UNCHANGED <<currentIndex, swipeDirection, isDragging, startPos,
                 isAnimating, showRatingModal, pendingWatchMovie, swipeTimers,
                 clickSuppressed>>
  /\ PointerFrame

PointerUp ==
  /\ SwiperActive
  /\ IF DragIgnored
       THEN UNCHANGED <<isDragging, dragOffset, isAnimating, swipeDirection,
                        swipeTimers>>
       ELSE LET d == ReleaseDecision(dragOffset) IN
            /\ isDragging' = FALSE
            /\ IF d = "cancel"
                 THEN /\ dragOffset' = [x |-> 0, y |-> 0]
                      /\ UNCHANGED <<isAnimating, swipeDirection, swipeTimers>>
                 ELSE /\ HandleSwipe(d, "release")
                      /\ UNCHANGED dragOffset
  /\ pointerRejected' = (swipeDirection # "none")
  /\ clickSuppressed' = (clickSuppressed /\ swipeDirection # "none")
  /\ UNCHANGED <<currentIndex, startPos, showRatingModal, pendingWatchMovie>>
  /\ PointerFrame

HandleMouseDown == \E cx \in StartXs : PointerDown(cx, 0)
HandleMouseMove == \E cx \in MoveXs, cy \in MoveYs : PointerMove(cx, cy)
\* bound to onMouseUp and to onMouseLeave
HandleMouseUp == PointerUp
HandleTouchStart == \E cx \in StartXs : PointerDown(cx, 0)
HandleTouchMove == \E cx \in MoveXs, cy \in MoveYs : PointerMove(cx, cy)
HandleTouchEnd == PointerUp


\* Observation of one dispatched decision: which callback ran for the card
\* and whether the commit came from a release 150 px to the right.
Dispatch(d, t) ==
  [like |-> d.like + (IF t.dir = "right" THEN 1 ELSE 0),
   dislike |-> d.dislike + (IF t.dir = "left" THEN 1 ELSE 0),
   watch |-> d.watch,
   rel150 |-> d.rel150 \/ (t.origin = "release" /\ t.ox = 150)]

RemoveAt(seq, i) == SubSeq(seq, 1, i - 1) \o SubSeq(seq, i + 1, Len(seq))

\* The onFinish effect of MovieSwiper, deps [currentIndex, movies.length,
\* onFinish]: its condition.
FinishCondition(idx) == idx >= Len(movies) /\ Len(movies) > 0

\* Runs of the effect caused by one committed render in which the effect's
\* deps changed.  onFinish is SearchPage.handleFinishSwiping, a new function
\* on every SearchPage render.  The first run calls it; when that call
\* changes showGameRating, SearchPage renders again, MovieSwiper receives a
\* new onFinish, the deps differ and the effect runs once more (that second
\* call sets showGameRating to the value it has, which renders nothing).
FinishRuns(idx) ==
  IF ~FinishCondition(idx) THEN 0
  ELSE IF shouldShowRating /\ ~showGameRating THEN 2
  ELSE 1

CountFinish(n) ==
  IF finishCalls + n > MaxFinishCalls THEN MaxFinishCalls ELSE finishCalls + n

\* SearchPage unmounts (navigate away from /search): the MovieSwiper state is
\* discarded.
LeaveSearch == SwiperMount

\* The timeout armed by handleSwipe.  onLike / onDislike are App's handlers
\* and act whether or not the swiper is still mounted; the swiper's own state
\* updates only reach the instance that armed the timer.
SwipeTimeout(i) ==
  LET t == swipeTimers[i]
      mounted == t.inst = searches /\ route = "search"
      newIdx == currentIndex + 1
  IN
  /\ swipeTimers' = RemoveAt(swipeTimers, i)
  /\ CASE t.dir = "right" -> HandleLike(t.movie)
       [] t.dir = "left" -> HandleDislike(t.movie)
       [] OTHER -> UNCHANGED <<sessionLikedMovies, sessionDislikedMovies,
                               remoteLog>>
  /\ IF ~mounted
       THEN UNCHANGED <<swiperVars, route, showGameRating, finishCalls,
                        dispatched>>
       ELSE IF t.dir = "up"
         THEN /\ pendingWatchMovie' = t.movie
              /\ showRatingModal' = TRUE
              /\ UNCHANGED <<currentIndex, swipeDirection, isDragging,
                             dragOffset, startPos, isAnimating, route,
                             showGameRating, finishCalls, dispatched>>
         ELSE /\ dispatched' = [dispatched EXCEPT ![t.idx + 1] = Dispatch(@, t)]
              /\ finishCalls' = CountFinish(FinishRuns(newIdx))
              /\ IF FinishCondition(newIdx) /\ ~shouldShowRating
                   THEN /\ route' = "summary"
                        /\ LeaveSearch
                        /\ UNCHANGED showGameRating
                   ELSE /\ currentIndex' = newIdx
                        /\ swipeDirection' = "none"
                        /\ dragOffset' = [x |-> 0, y |-> 0]
                        /\ isAnimating' = FALSE
                        /\ showGameRating' =
                             (showGameRating \/ FinishCondition(newIdx))
                        /\ UNCHANGED <<route, isDragging, startPos,
                                       showRatingModal, pendingWatchMovie>>
  /\ UNCHANGED <<user, favoriteMovieIds, inflight, loading, movies,
                 shouldShowRating, showErrorModal, ratingPending, searches,
                 viewVars, prefVars, prefObs, pageVars, clickSuppressed,
                 pointerRejected, lastOp>>

\* App renders again for a reason of its own (the 30 s backend poll sets a
\* new backendStatus object): SearchPage renders, MovieSwiper gets a new
\* onFinish and its effect runs again.
ParentRerender ==
  /\ SwiperMounted
  /\ FinishCondition(currentIndex)
  /\ finishCalls < MaxFinishCalls
  /\ finishCalls' = finishCalls + 1
  /\ IF shouldShowRating
       THEN /\ showGameRating' = TRUE
            /\ UNCHANGED <<route, swiperVars>>
       ELSE /\ route' = "summary"
            /\ LeaveSearch
            /\ UNCHANGED showGameRating
  /\ UNCHANGED <<user, sessionLikedMovies, sessionDislikedMovies,
                 favoriteMovieIds, inflight, loading, movies, shouldShowRating,
                 showErrorModal, ratingPending, searches, swipeTimers,
                 viewVars, prefVars, prefObs, pageVars, dispatched, remoteLog, clickSuppressed, pointerRejected, lastOp>>

\* handleWatchSubmit: does nothing unless pendingWatchMovie and onWatch are
\* both set; App renders <SearchPage> without onWatch.
OnWatchProvided == FALSE

\* RatingModal: onSubmit={handleWatchSubmit}.  The rating the user completed
\* is recorded for the card; the handler itself changes nothing.
HandleWatchSubmit ==
  /\ SwiperMounted /\ showRatingModal /\ pendingWatchMovie # NoMovie
  /\ ~OnWatchProvided
  /\ dispatched' = [dispatched EXCEPT ![currentIndex + 1].watch = 1]
  /\ UNCHANGED <<appVars, searchVars, swiperVars, swipeTimers, viewVars,
                 prefVars, prefObs, pageVars, finishCalls, remoteLog, clickSuppressed,
                 pointerRejected, lastOp>>

HandleWatchCancel ==
  /\ SwiperMounted /\ showRatingModal /\ pendingWatchMovie # NoMovie
  /\ swipeDirection' = "none"
  /\ dragOffset' = [x |-> 0, y |-> 0]
  /\ isAnimating' = FALSE
  /\ showRatingModal' = FALSE
  /\ pendingWatchMovie' = NoMovie
  /\ UNCHANGED <<currentIndex, isDragging, startPos, swipeTimers,
                 clickSuppressed, pointerRejected>>
  /\ PointerFrame

\* GameRatingModal: onSkip={handleSkipRating}
HandleSkipRating ==
  /\ SwiperMounted /\ showGameRating
  /\ route' = "summary"
  /\ LeaveSearch
  /\ ViewMount
  /\ UNCHANGED <<user, sessionLikedMovies, sessionDislikedMovies,
                 favoriteMovieIds, searchVars, swipeTimers, prefVars,
                 swipeObs, prefObs, pageVars>>

\* GameRatingModal: onSubmit={handleSubmitRating}, up to its await
HandleSubmitRating ==
  /\ SwiperMounted /\ showGameRating /\ ~ratingPending
  /\ ratingPending' = TRUE
  /\ UNCHANGED <<appVars, loading, movies, shouldShowRating, showGameRating,
                 showErrorModal, searches, swiperVars, swipeTimers, viewVars,
                 prefVars, swipeObs, prefObs, pageVars>>

\* handleSubmitRating's finally: navigate('/summary'), whatever the response
SubmitRatingSettled ==
  /\ ratingPending
  /\ ratingPending' = FALSE
  /\ route' = "summary"
  /\ LeaveSearch
  /\ IF route = "summary" THEN UNCHANGED <<viewVars, inflight>> ELSE ViewMount
  /\ UNCHANGED <<user, sessionLikedMovies, sessionDislikedMovies,
                 favoriteMovieIds, loading, movies, shouldShowRating,
                 showGameRating, showErrorModal, searches, swipeTimers,
                 prefVars, swipeObs, prefObs, pageVars>>

\* App.handleLogoClick: clear both session lists and go home
HandleLogoClick ==
  /\ route \in {"search", "summary"}
  /\ sessionLikedMovies' = <<>>
  /\ sessionDislikedMovies' = <<>>
  /\ route' = "home"
  /\ LeaveSearch
  /\ ViewMount
  /\ UNCHANGED <<user, favoriteMovieIds, searchVars, swipeTimers,
                 prefVars, swipeObs, prefObs, pageVars>>

\* SummaryPage.handleBackToHome / handleKeepSearching: navigate('/') only
HandleKeepSearching ==
  /\ route = "summary"
  /\ route' = "home"
  /\ ViewMount
  /\ UNCHANGED <<user, sessionLikedMovies, sessionDislikedMovies,
                 favoriteMovieIds, searchVars, swiperVars,
                 swipeTimers, prefVars, swipeObs, prefObs, pageVars>>


\* ------------------------------------------- LikedMoviesView on /summary
\* The liked grid shows sessionLikedMovies, the disliked grid
\* sessionDislikedMovies; favoriteMovieIds is passed as sessionFavoriteIds,
\* the favourites among the session's liked movies.
Request(op, id, found) ==
  [op |-> op, id |-> id, found |-> found, wasFav |-> id \in favoriteMovieIds,
   live |-> TRUE]

SummaryFrame ==
  UNCHANGED <<user, route, sessionLikedMovies, sessionDislikedMovies,
              favoriteMovieIds, searchVars, swiperVars, swipeTimers, prefVars,
              swipeObs, prefObs, pageVars>>

\* LikedMoviesView.handleMoveToDisliked up to the await inside
\* App.handleMoveToDisliked; found is sessionLikedMovies.find(...) of the
\* render whose handler was clicked.
MoveToDislikedClick(id) ==
  /\ route = "summary" /\ Has(sessionLikedMovies, id)
  /\ user
  /\ id \notin movingIds
  /\ Len(inflight) < MaxInflight
  /\ movingIds' = movingIds \cup {id}
  /\ inflight' =
       Append(inflight, Request("moveToDisliked", id, Has(sessionLikedMovies, id)))
  /\ UNCHANGED <<processingIds, coolDowns>>
  /\ SummaryFrame

MoveToLikedClick(id) ==
  /\ route = "summary" /\ Has(sessionDislikedMovies, id)
  /\ user
  /\ id \notin movingIds
  /\ Len(inflight) < MaxInflight
  /\ movingIds' = movingIds \cup {id}
  /\ inflight' =
       Append(inflight, Request("moveToLiked", id, Has(sessionDislikedMovies, id)))
  /\ UNCHANGED <<processingIds, coolDowns>>
  /\ SummaryFrame

\* LikedMoviesView.handleFavoriteClick up to the await inside
\* App.handleAddToFavorites / handleRemoveFromFavorites
FavoriteClick(id) ==
  /\ route = "summary" /\ Has(sessionLikedMovies, id)
  /\ user
  /\ id \notin processingIds
  /\ Len(inflight) < MaxInflight
  /\ processingIds' = processingIds \cup {id}
  /\ inflight' =
       Append(inflight,
              Request(IF id \in favoriteMovieIds THEN "removeFavorite"
                      ELSE "addFavorite", id, TRUE))
  /\ UNCHANGED <<movingIds, coolDowns>>
  /\ SummaryFrame

\* A move to disliked that forgets the favourite marker
MoveToDislikedFavoritesKept(r) == favoriteMovieIds

\* The continuations after `if (response.ok)`.
MoveToDislikedFavorites(r) == favoriteMovieIds \ {r.id}

MoveToDislikedLiked(r) ==
  IF r.found THEN SeqFilter(sessionLikedMovies, r.id) ELSE sessionLikedMovies

MoveToDislikedDisliked(r) ==
  IF r.found THEN Append(sessionDislikedMovies, r.id) ELSE sessionDislikedMovies

MoveToLikedDisliked(r) ==
  IF r.found THEN SeqFilter(sessionDislikedMovies, r.id)
  ELSE sessionDislikedMovies

MoveToLikedLiked(r) ==
  IF r.found THEN Append(sessionLikedMovies, r.id) ELSE sessionLikedMovies

\* A failing move that keeps an optimistic insertion into the destination
MoveFailedDislikedOptimistic(r) ==
  IF r.op = "moveToDisliked" THEN Append(sessionDislikedMovies, r.id)
  ELSE sessionDislikedMovies

\* What a response that is not ok, or a fetch that throws, changes: nothing.
MoveFailedDisliked(r) == sessionDislikedMovies
MoveFailedLiked(r) == sessionLikedMovies

Outcomes == {"ok", "notOk", "throw"}

CoolDownKind(op) ==
  IF op \in {"moveToDisliked", "moveToLiked"} THEN "moving" ELSE "processing"

\* A view that arms the cool-down after its await, inside try
ArmsCoolDownInTry(r, outcome) == r.live /\ outcome = "ok"

\* The view's handlers arm the 600 ms cool-down in `finally`, whatever the
\* awaited call did; the timeout of an unmounted view clears nothing.
ArmsCoolDown(r, outcome) == r.live

\* The remote call of request i settles; then the view's finally arms the
\* 600 ms cool-down (if that view is still mounted).
RemoteSettle(i, outcome) ==
  LET r == inflight[i] IN
  /\ inflight' = RemoveAt(inflight, i)
  /\ IF outcome = "ok"
       THEN CASE r.op = "moveToDisliked" ->
                   /\ favoriteMovieIds' = MoveToDislikedFavorites(r)
                   /\ sessionLikedMovies' = MoveToDislikedLiked(r)
                   /\ sessionDislikedMovies' = MoveToDislikedDisliked(r)
              [] r.op = "moveToLiked" ->
                   /\ sessionDislikedMovies' = MoveToLikedDisliked(r)
                   /\ sessionLikedMovies' = MoveToLikedLiked(r)
                   /\ UNCHANGED favoriteMovieIds
              [] r.op = "addFavorite" ->
                   /\ favoriteMovieIds' = favoriteMovieIds \cup {r.id}
                   /\ UNCHANGED <<sessionLikedMovies, sessionDislikedMovies>>
              [] r.op = "removeFavorite" ->
                   /\ favoriteMovieIds' = favoriteMovieIds \ {r.id}
                   /\ UNCHANGED <<sessionLikedMovies, sessionDislikedMovies>>
       ELSE /\ sessionLikedMovies' = MoveFailedLiked(r)
            /\ sessionDislikedMovies' = MoveFailedDisliked(r)
            /\ UNCHANGED favoriteMovieIds
  /\ coolDowns' = IF ArmsCoolDown(r, outcome)
                    THEN coolDowns \cup {[kind |-> CoolDownKind(r.op), id |-> r.id]}
                    ELSE coolDowns
  /\ lastOp' = [op |-> r.op, id |-> r.id, ok |-> (outcome = "ok"),
                wasFav |-> r.wasFav]
  /\ UNCHANGED <<user, route, searchVars, swiperVars, swipeTimers, movingIds,
                 processingIds, prefVars, prefObs, pageVars, finishCalls, dispatched,
                 remoteLog, clickSuppressed,
                 pointerRejected>>

\* The 600 ms cool-down timeout clears the per-ID marker.
CoolDownTimeout(c) ==
  /\ c \in coolDowns
  /\ coolDowns' = coolDowns \ {c}
  /\ movingIds' = IF c.kind = "moving" THEN movingIds \ {c.id} ELSE movingIds
  /\ processingIds' =
       IF c.kind = "processing" THEN processingIds \ {c.id} ELSE processingIds
  /\ UNCHANGED <<appVars, searchVars, swiperVars, swipeTimers, prefVars,
                 swipeObs, prefObs, pageVars>>

\* ---------------------------------------------------- session specification
Next ==
  \/ HandleSubmitPreferences
  \/ \E o \in FetchOutcomes, q \in Queues : FetchMoviesResolve(o, q)
  \/ \E d \in Directions : ButtonClick(d)
  \/ HandleMouseDown
  \/ HandleMouseMove
  \/ HandleMouseUp
  \/ HandleTouchStart
  \/ HandleTouchMove
  \/ HandleTouchEnd
  \/ \E i \in 1..Len(swipeTimers) : SwipeTimeout(i)
  \/ ParentRerender
  \/ HandleWatchSubmit
  \/ HandleWatchCancel
  \/ HandleSkipRating
  \/ HandleSubmitRating
  \/ SubmitRatingSettled
  \/ HandleLogoClick
  \/ HandleKeepSearching

Spec == Init /\ [][Next]_vars

\* ---------------------------------------------- summary view specification
\* The summary page right after a swipe session: the session lists are any
\* lists handleLike / handleDislike can have built (no repeats inside a list,
\* possibly an ID in both), favoriteMovieIds is whatever loadFavorites
\* fetched, and no remote call is pending.
SessionLists == Queues \cup {<<>>}

SummaryInit ==
  /\ user = TRUE
  /\ route = "summary"
  /\ sessionLikedMovies \in SessionLists
  /\ sessionDislikedMovies \in SessionLists
  /\ favoriteMovieIds \in SUBSET IDs
  /\ inflight = <<>>
  /\ loading = FALSE
  /\ movies = <<>>
  /\ shouldShowRating = FALSE
  /\ showGameRating = FALSE
  /\ showErrorModal = FALSE
  /\ ratingPending = FALSE
  /\ searches = 1
  /\ SwiperInitial
  /\ swipeTimers = <<>>
  /\ movingIds = {}
  /\ processingIds = {}
  /\ coolDowns = {}
  /\ PrefsIdle
  /\ PagesIdle
  /\ finishCalls = 0
  /\ dispatched = [i \in 1..MaxLen |-> NoDispatch]
  /\ remoteLog = <<>>
  /\ clickSuppressed = FALSE
  /\ pointerRejected = FALSE
  /\ lastOp = NoOp

SummaryNext ==
  \/ \E id \in IDs : MoveToDislikedClick(id)
  \/ \E id \in IDs : MoveToLikedClick(id)
  \/ \E id \in IDs : FavoriteClick(id)
  \/ \E i \in 1..Len(inflight), o \in Outcomes : RemoteSettle(i, o)
  \/ \E c \in coolDowns : CoolDownTimeout(c)
  \/ HandleLogoClick
  \/ HandleKeepSearching

SummarySpec == SummaryInit /\ [][SummaryNext]_vars

\* The summary view with its scheduling: a remote call that is pending
\* settles, and a timeout that is armed fires.
CoolDowns == [kind : {"moving", "processing"}, id : IDs]

SettleFor(c) ==
  \E i \in 1..Len(inflight), o \in Outcomes :
    /\ inflight[i].id = c.id /\ CoolDownKind(inflight[i].op) = c.kind
    /\ RemoteSettle(i, o)


\* It starts from a summary of two liked movies.
SummaryFairInit ==
  /\ SummaryInit
  /\ sessionLikedMovies = <<1, 2>>
  /\ sessionDislikedMovies = <<>>
  /\ favoriteMovieIds = {}

SummaryFairSpec ==
  /\ SummaryFairInit /\ [][SummaryNext]_vars
  /\ \A c \in CoolDowns : WF_vars(SettleFor(c))
  /\ \A c \in CoolDowns : WF_vars(CoolDownTimeout(c))


\* ------------------------------------------------- preferences (App)
\* A preference object is one of 0..MaxPref; 0 is the default object of
\* useState, and a stored profile holding 0 has no field to merge.
Prefs == 0..MaxPref

Min(a, b) == IF a < b THEN a ELSE b

\* A throttling timer: one that is running keeps its deadline
SaveTimerThrottled(p) ==
  IF saveTimer.armed THEN [saveTimer EXCEPT !.prefs = p]
  ELSE [armed |-> TRUE, left |-> DebounceTicks, prefs |-> p]

\* `const saveTimer = setTimeout(..., 1000)` after the cleanup of the
\* previous run cleared the old timer; the callback closes over the
\* preferences of this render.
SaveTimer(p) == [armed |-> TRUE, left |-> DebounceTicks, prefs |-> p]

\* An auto-save effect that only waits for the user
AutoSaveGuardUserOnly(u, loaded) == ~u

\* `if (!user || !preferencesLoaded) return;`
AutoSaveGuard(u, loaded) == ~u \/ ~loaded

\* The auto-save effect, run whenever preferences, user or preferencesLoaded
\* changed: cleanup of the previous run, then the body.
AutoSaveEffect(u, loaded, p) ==
  IF AutoSaveGuard(u, loaded) THEN NoTimer ELSE SaveTimer(p)

\* userService.updatePreferences: a PUT the server applies when it answers ok
Put(p, ok) == IF ok THEN p ELSE serverPrefs

SendRecord(kind, p) ==
  [kind |-> kind, prefs |-> p, loaded |-> preferencesLoaded, quiet |-> quiet,
   cancelled |-> cancelled]

PrefFrame ==
  UNCHANGED <<route, sessionLikedMovies, sessionDislikedMovies,
              favoriteMovieIds, inflight, searchVars, swiperVars, swipeTimers,
              viewVars, swipeObs, pageVars>>

\* checkAuthStatus, continuation of `await authService.getCurrentUser()`
GetCurrentUserResolve(currentUser) ==
  /\ ~unloaded /\ authPc = "getCurrentUser"
  /\ user' = currentUser
  /\ preferencesLoaded' = ~currentUser
  /\ authPc' = IF currentUser THEN "getProfile" ELSE "done"
  /\ saveTimer' = AutoSaveEffect(user', preferencesLoaded', preferences)
  /\ UNCHANGED <<preferences, serverPrefs, showProfileModal, logoutPc,
                 profilePc, unloaded, prefObs>>
  /\ PrefFrame

\* setPreferences(prev => ({...prev, ...loadedPreferences}))
MergeLoaded(prev, stored) == IF stored = 0 THEN prev ELSE stored

ProfileOutcomes == {"profile", "null", "throw"}

\* checkAuthStatus, continuation of `await userService.getProfile()`: every
\* branch ends with setPreferencesLoaded(true).
GetProfileResolve(outcome) ==
  /\ ~unloaded /\ authPc = "getProfile"
  /\ preferences' = IF outcome = "profile"
                      THEN MergeLoaded(preferences, serverPrefs)
                      ELSE preferences
  /\ preferencesLoaded' = TRUE
  /\ authPc' = "done"
  /\ saveTimer' = AutoSaveEffect(user, TRUE, preferences')
  /\ UNCHANGED <<user, serverPrefs, showProfileModal, logoutPc, profilePc,
                 unloaded, prefObs>>
  /\ PrefFrame

\* HomePage: onChange={... setPreferences(prev => ({...prev, field}))}; the
\* new object re-runs the auto-save effect.
SetPreferences(v) ==
  /\ ~unloaded /\ route = "home"
  /\ preferences' = v
  /\ saveTimer' = AutoSaveEffect(user, preferencesLoaded, v)
  /\ quiet' = 0
  /\ mutatedUnloaded' = (mutatedUnloaded \/ ~preferencesLoaded)
  /\ cancelled' = (cancelled \/ (saveTimer.armed /\ saveTimer.left < DebounceTicks))
  /\ UNCHANGED <<user, authPc, preferencesLoaded, serverPrefs,
                 showProfileModal, logoutPc, profilePc, unloaded, lastSend,
                 flushes>>
  /\ PrefFrame

\* Half a second passes.
Tick ==
  /\ ~unloaded
  /\ quiet' = Min(quiet + 1, MaxTicks)
  /\ saveTimer' = IF saveTimer.armed /\ saveTimer.left > 0
                    THEN [saveTimer EXCEPT !.left = @ - 1]
                    ELSE saveTimer
  /\ UNCHANGED <<user, authPc, preferencesLoaded, preferences, serverPrefs,
                 showProfileModal, logoutPc, profilePc, unloaded, lastSend,
                 mutatedUnloaded, cancelled, flushes>>
  /\ PrefFrame

\* The auto-save timer's callback: it sends the preferences it closed over.
AutoSaveTimeout(ok) ==
  /\ ~unloaded
  /\ saveTimer.armed /\ saveTimer.left = 0
  /\ lastSend' = SendRecord("auto", saveTimer.prefs)
  /\ serverPrefs' = Put(saveTimer.prefs, ok)
  /\ saveTimer' = NoTimer
  /\ cancelled' = FALSE
  /\ UNCHANGED <<user, authPc, preferencesLoaded, preferences,
                 showProfileModal, logoutPc, profilePc, unloaded, quiet,
                 mutatedUnloaded, flushes>>
  /\ PrefFrame

\* A flush point that leaves the write to the debounce timer
FlushSendDeferred(kind) == lastSend

\* handleLogout / handleViewProfile / handleBeforeUnload up to their await:
\* `if (user) await userService.updatePreferences(preferences)`
FlushSend(kind) == IF user THEN SendRecord(kind, preferences) ELSE lastSend

FlushStarted(kind) ==
  [user |-> user,
   sent |-> (user /\ lastSend' = SendRecord(kind, preferences)),
   early |-> (saveTimer.armed /\ saveTimer.left > 0),
   acted |-> FALSE]

Flush(kind, ok) ==
  /\ lastSend' = FlushSend(kind)
  /\ serverPrefs' = IF lastSend' = SendRecord(kind, preferences) /\ user
                      THEN Put(preferences, ok) ELSE serverPrefs
  /\ flushes' = [flushes EXCEPT ![kind] =
                   [FlushStarted(kind) EXCEPT !.acted = (kind = "unload")]]

\* ProfileDropdown: onLogout={handleLogout}
HandleLogout(ok) ==
  /\ ~unloaded /\ user /\ logoutPc = "idle"
  /\ Flush("logout", ok)
  /\ logoutPc' = "saving"
  /\ UNCHANGED <<user, authPc, preferencesLoaded, preferences, saveTimer,
                 showProfileModal, profilePc, unloaded, quiet,
                 mutatedUnloaded, cancelled>>
  /\ PrefFrame

\* handleLogout after the write settled: `await authService.logout()`
LogoutSaved ==
  /\ ~unloaded /\ logoutPc = "saving"
  /\ logoutPc' = "loggingOut"
  /\ flushes' = [flushes EXCEPT !["logout"].acted = TRUE]
  /\ UNCHANGED <<user, authPc, preferencesLoaded, preferences, saveTimer,
                 serverPrefs, showProfileModal, profilePc, unloaded, lastSend,
                 quiet, mutatedUnloaded, cancelled>>
  /\ PrefFrame

\* handleLogout after authService.logout() answered
LogoutResolve(success) ==
  /\ ~unloaded /\ logoutPc = "loggingOut"
  /\ logoutPc' = "idle"
  /\ user' = (user /\ ~success)
  /\ showProfileModal' = (showProfileModal /\ ~success)
  /\ saveTimer' = IF user' = user THEN saveTimer
                  ELSE AutoSaveEffect(user', preferencesLoaded, preferences)
  /\ UNCHANGED <<authPc, preferencesLoaded, preferences, serverPrefs,
                 profilePc, unloaded, prefObs>>
  /\ PrefFrame

\* ProfileDropdown: onViewProfile={handleViewProfile}
HandleViewProfile(ok) ==
  /\ ~unloaded /\ user /\ profilePc = "idle" /\ ~showProfileModal
  /\ Flush("profile", ok)
  /\ profilePc' = "saving"
  /\ UNCHANGED <<user, authPc, preferencesLoaded, preferences, saveTimer,
                 showProfileModal, logoutPc, unloaded, quiet,
                 mutatedUnloaded, cancelled>>
  /\ PrefFrame

\* handleViewProfile after the write settled: setShowProfileModal(true)
ViewProfileSaved ==
  /\ ~unloaded /\ profilePc = "saving"
  /\ profilePc' = "idle"
  /\ showProfileModal' = TRUE
  /\ flushes' = [flushes EXCEPT !["profile"].acted = TRUE]
  /\ UNCHANGED <<user, authPc, preferencesLoaded, preferences, saveTimer,
                 serverPrefs, logoutPc, unloaded, lastSend, quiet,
                 mutatedUnloaded, cancelled>>
  /\ PrefFrame

\* ProfileModal: onClose={() => setShowProfileModal(false)}
CloseProfileModal ==
  /\ ~unloaded /\ showProfileModal
  /\ showProfileModal' = FALSE
  /\ UNCHANGED <<user, authPc, preferencesLoaded, preferences, saveTimer,
                 serverPrefs, logoutPc, profilePc, unloaded, prefObs>>
  /\ PrefFrame

\* window 'beforeunload': the listener runs up to its await, then the page
\* goes away with everything that was pending.
HandleBeforeUnload(ok) ==
  /\ ~unloaded
  /\ Flush("unload", ok)
  /\ unloaded' = TRUE
  /\ UNCHANGED <<user, authPc, preferencesLoaded, preferences, saveTimer,
                 showProfileModal, logoutPc, profilePc, quiet,
                 mutatedUnloaded, cancelled>>
  /\ PrefFrame

\* ------------------------------------------------ preference specification
\* The page has just been opened: nobody is known to be logged in, the
\* preference object is the default one, and the server stores any object.
PrefInit ==
  /\ user = FALSE
  /\ route = "home"
  /\ sessionLikedMovies = <<>>
  /\ sessionDislikedMovies = <<>>
  /\ favoriteMovieIds = {}
  /\ inflight = <<>>
  /\ loading = FALSE
  /\ movies = <<>>
  /\ shouldShowRating = FALSE
  /\ showGameRating = FALSE
  /\ showErrorModal = FALSE
  /\ ratingPending = FALSE
  /\ searches = 0
  /\ SwiperInitial
  /\ swipeTimers = <<>>
  /\ movingIds = {}
  /\ processingIds = {}
  /\ coolDowns = {}
  /\ authPc = "getCurrentUser"
  /\ preferencesLoaded = FALSE
  /\ preferences = 0
  /\ saveTimer = NoTimer
  /\ serverPrefs \in Prefs
  /\ showProfileModal = FALSE
  /\ logoutPc = "idle"
  /\ profilePc = "idle"
  /\ unloaded = FALSE
  /\ lastSend = NoSend
  /\ quiet = 0
  /\ mutatedUnloaded = FALSE
  /\ cancelled = FALSE
  /\ flushes = [k \in FlushPoints |-> NoFlush]
  /\ PagesIdle
  /\ finishCalls = 0
  /\ dispatched = [i \in 1..MaxLen |-> NoDispatch]
  /\ remoteLog = <<>>
  /\ clickSuppressed = FALSE
  /\ pointerRejected = FALSE
  /\ lastOp = NoOp

PrefNext ==
  \/ \E u \in BOOLEAN : GetCurrentUserResolve(u)
  \/ \E o \in ProfileOutcomes : GetProfileResolve(o)
  \/ \E v \in Prefs : SetPreferences(v)
  \/ Tick
  \/ \E ok \in BOOLEAN : AutoSaveTimeout(ok)
  \/ \E ok \in BOOLEAN : HandleLogout(ok)
  \/ LogoutSaved
  \/ \E success \in BOOLEAN : LogoutResolve(success)
  \/ \E ok \in BOOLEAN : HandleViewProfile(ok)
  \/ ViewProfileSaved
  \/ CloseProfileModal
  \/ \E ok \in BOOLEAN : HandleBeforeUnload(ok)

PrefSpec == PrefInit /\ [][PrefNext]_vars

\* --------------------------------------------- favourites specification
\* App.handleClearLikedMovies (ProfileModal's onClearLikedMovies) once its
\* DELETE settled: an ok response empties sessionLikedMovies; nothing else
\* is set (the alert and the refresh trigger hold no modelled state).
HandleClearLikedMovies(outcome) ==
  /\ user /\ showProfileModal
  /\ sessionLikedMovies' =
       IF outcome = "ok" THEN <<>> ELSE sessionLikedMovies
  /\ lastOp' = [op |-> "clearLiked", id |-> NoMovie, ok |-> (outcome = "ok"),
                wasFav |-> FALSE]
  /\ UNCHANGED <<user, route, sessionDislikedMovies, favoriteMovieIds,
                 inflight, searchVars, swiperVars, swipeTimers, viewVars,
                 prefVars, prefObs, pageVars, finishCalls, dispatched, remoteLog,
                 clickSuppressed, pointerRejected>>

\* The summary page of a session whose favourites are all among its liked
\* movies.
FavoritesInit ==
  /\ SummaryInit
  /\ favoriteMovieIds \subseteq IdSet(sessionLikedMovies)

FavoritesNext ==
  \/ \E id \in IDs : MoveToDislikedClick(id)
  \/ \E id \in IDs : FavoriteClick(id)
  \/ \E i \in 1..Len(inflight), o \in Outcomes : RemoteSettle(i, o)
  \/ \E c \in coolDowns : CoolDownTimeout(c)
  \/ \E ok \in BOOLEAN : HandleViewProfile(ok)
  \/ ViewProfileSaved
  \/ CloseProfileModal
  \/ \E o \in Outcomes : HandleClearLikedMovies(o)

FavoritesSpec == FavoritesInit /\ [][FavoritesNext]_vars

\* ----------------------------------------------- decision specification
\* A settled fetch that takes the ID back out of the session list when it
\* threw
SettledListRolledBack(list, c, outcome) ==
  IF outcome = "throw" THEN SeqFilter(list, c.id) ELSE list

\* What the rest of handleLike / handleDislike does to the session list once
\* the fetch settled: nothing (the response is not read, the catch block
\* only logs).
SettledList(list, c, outcome) == list

\* `catch (error) { console.error(...) }` runs when the fetch rejects; a
\* response of any status resolves it.
SettleLogged(outcome) == outcome = "throw"

\* The fetch of remoteLog[i] settles and handleLike / handleDislike resumes
\* after its await.
LikeSettle(i, outcome) ==
  LET c == remoteLog[i] IN
  /\ c.status = "pending"
  /\ remoteLog' = [remoteLog EXCEPT ![i].status = outcome,
                                     ![i].logged = SettleLogged(outcome)]
  /\ sessionLikedMovies' =
       IF c.op = "like" THEN SettledList(sessionLikedMovies, c, outcome)
       ELSE sessionLikedMovies
  /\ sessionDislikedMovies' =
       IF c.op = "dislike" THEN SettledList(sessionDislikedMovies, c, outcome)
       ELSE sessionDislikedMovies
  /\ UNCHANGED <<user, route, favoriteMovieIds, inflight, searchVars,
                 swiperVars, swipeTimers, viewVars, prefVars, prefObs, pageVars,
                 finishCalls, dispatched, clickSuppressed, pointerRejected,
                 lastOp>>

\* The search page showing the first card of the queue <<1, 2>>, for a
\* logged-in user and for a guest.
DecisionInit ==
  /\ user \in BOOLEAN
  /\ route = "search"
  /\ sessionLikedMovies = <<>>
  /\ sessionDislikedMovies = <<>>
  /\ favoriteMovieIds = {}
  /\ inflight = <<>>
  /\ loading = FALSE
  /\ movies = <<1, 2>>
  /\ shouldShowRating = FALSE
  /\ showGameRating = FALSE
  /\ showErrorModal = FALSE
  /\ ratingPending = FALSE
  /\ searches = 1
  /\ SwiperInitial
  /\ swipeTimers = <<>>
  /\ movingIds = {}
  /\ processingIds = {}
  /\ coolDowns = {}
  /\ PrefsIdle
  /\ PagesIdle
  /\ finishCalls = 0
  /\ dispatched = [i \in 1..MaxLen |-> NoDispatch]
  /\ remoteLog = <<>>
  /\ clickSuppressed = FALSE
  /\ pointerRejected = FALSE
  /\ lastOp = NoOp

DecisionNext ==
  \/ \E d \in Directions : ButtonClick(d)
  \/ \E i \in 1..Len(swipeTimers) : SwipeTimeout(i)
  \/ \E i \in 1..Len(remoteLog), o \in Outcomes : LikeSettle(i, o)
  \/ HandleWatchCancel

DecisionSpec == DecisionInit /\ [][DecisionNext]_vars

\* ------------------------------------------------------- rating dialogs
\* The list views on /liked (LikedMoviesView, with its MovieModal) and on
\* /disliked (DislikedMoviesView).  Every catalog ID is a movie of the
\* list on show, so `movies.find(...)` in the submit handlers finds it.
Ratings == 1..MaxRating
RatingFrame ==
  UNCHANGED <<appVars, searchVars, swiperVars, swipeTimers, viewVars,
              prefVars, swipeObs, prefObs, preloadVars, filterVars, cacheVars>>

\* One entry of watchLog: the callback invoked, its movie, and whether the
\* local cache consulted by the handler recorded the movie as watched.
WatchCall(op, id, had) == [op |-> op, id |-> id, had |-> had]

Logged(op, id, had) ==
  IF op = "none" THEN watchLog ELSE Append(watchLog, WatchCall(op, id, had))

\* LikedMoviesView.handleRatingSubmit:
\*   if (existingRating && onUpdateWatchedRating) ... else if (onWatch) ...
LikedCall(id) ==
  IF watchedMovies[id] > 0 /\ watchProps.onUpdateWatchedRating THEN "update"
  ELSE IF watchProps.onWatch THEN "create"
  ELSE "none"

\* DislikedMoviesView.handleRatingSubmit:
\*   if (watchedMovies.has(id)) onUpdateWatchedRating?.(...) else onWatch?.(...)
DislikedCall(id) ==
  IF watchedMovies[id] > 0
    THEN (IF watchProps.onUpdateWatchedRating THEN "update" ELSE "none")
    ELSE (IF watchProps.onWatch THEN "create" ELSE "none")

\* MovieModal.handleRatingSubmit:
\*   if (localUserRating && onUpdateWatchedRating) ... else if (onWatch) ...
ModalCall ==
  IF localUserRating > 0 /\ watchProps.onUpdateWatchedRating THEN "update"
  ELSE IF watchProps.onWatch THEN "create"
  ELSE "none"

\* MovieModal's userRating prop:
\*   selectedMovie.userRating || watchedMovies.get(id)
ModalUserRating(cache) ==
  IF selectedMovie.userRating > 0 THEN selectedMovie.userRating
  ELSE cache[selectedMovie.id]

\* MovieModal's effect that copies a changed userRating prop into
\* localUserRating
SyncedUserRating(cache) ==
  IF selectedMovie.id # NoMovie
       /\ ModalUserRating(cache) # ModalUserRating(watchedMovies)
    THEN ModalUserRating(cache)
    ELSE localUserRating

\* handleWatchClick of either view: open the rating dialog for a card
HandleWatchClick(id) ==
  /\ route \in {"liked", "disliked"}
  /\ ~listShowRatingModal /\ selectedMovie = NoSelection
  /\ ratingMovieId' = id
  /\ listShowRatingModal' = TRUE
  /\ UNCHANGED <<watchProps, watchedMovies, ratingSubmits, selectedMovie,
                 localUserRating, modalShowRatingModal, watchLog>>
  /\ RatingFrame

\* LikedMoviesView.handleRatingSubmit up to its await; without a callback
\* to await it runs to its end.
LikedRatingSubmit(rating) ==
  /\ route = "liked" /\ listShowRatingModal /\ ratingMovieId # NoMovie
  /\ Len(watchLog) < MaxWatchCalls
  /\ LET id == ratingMovieId
         op == LikedCall(id)
         cache == [watchedMovies EXCEPT ![id] = rating]
     IN
     /\ watchLog' = Logged(op, id, watchedMovies[id] > 0)
     /\ IF op = "none"
          THEN /\ watchedMovies' = cache
               /\ ratingMovieId' = NoMovie
               /\ listShowRatingModal' = FALSE
               /\ localUserRating' = SyncedUserRating(cache)
               /\ UNCHANGED ratingSubmits
          ELSE /\ ratingSubmits' =
                    Append(ratingSubmits, [id |-> id, rating |-> rating])
               /\ UNCHANGED <<watchedMovies, ratingMovieId,
                              listShowRatingModal, localUserRating>>
  /\ UNCHANGED <<watchProps, selectedMovie, modalShowRatingModal>>
  /\ RatingFrame

\* LikedMoviesView.handleRatingSubmit after its await: record the rating
\* and close the dialog.
RatingSubmitResume(i) ==
  LET c == ratingSubmits[i]
      cache == [watchedMovies EXCEPT ![c.id] = c.rating]
  IN
  /\ ratingSubmits' = RemoveAt(ratingSubmits, i)
  /\ watchedMovies' = cache
  /\ ratingMovieId' = NoMovie
  /\ listShowRatingModal' = FALSE
  /\ localUserRating' = SyncedUserRating(cache)
  /\ UNCHANGED <<watchProps, selectedMovie, modalShowRatingModal, watchLog>>
  /\ RatingFrame

\* DislikedMoviesView.handleRatingSubmit (no await)
DislikedRatingSubmit(rating) ==
  /\ route = "disliked" /\ listShowRatingModal /\ ratingMovieId # NoMovie
  /\ Len(watchLog) < MaxWatchCalls
  /\ watchLog' = Logged(DislikedCall(ratingMovieId), ratingMovieId,
                        watchedMovies[ratingMovieId] > 0)
  /\ watchedMovies' = [watchedMovies EXCEPT ![ratingMovieId] = rating]
  /\ ratingMovieId' = NoMovie
  /\ listShowRatingModal' = FALSE
  /\ UNCHANGED <<watchProps, ratingSubmits, selectedMovie, localUserRating,
                 modalShowRatingModal>>
  /\ RatingFrame

\* The rating dialog's onClose: LikedMoviesView also forgets the movie,
\* DislikedMoviesView only hides the dialog, MovieModal.handleRatingCancel
\* hides the modal's own dialog.
HandleRatingCancel ==
  /\ route \in {"liked", "disliked"}
  /\ IF modalShowRatingModal
       THEN /\ modalShowRatingModal' = FALSE
            /\ UNCHANGED <<ratingMovieId, listShowRatingModal>>
       ELSE /\ listShowRatingModal
            /\ listShowRatingModal' = FALSE
            /\ ratingMovieId' =
                 IF route = "liked" THEN NoMovie ELSE ratingMovieId
            /\ UNCHANGED modalShowRatingModal
  /\ UNCHANGED <<watchProps, watchedMovies, ratingSubmits, selectedMovie,
                 localUserRating, watchLog>>
  /\ RatingFrame

\* LikedMoviesView.handleMovieClick once the details fetch settled: the
\* MovieModal mounts with useState(userRating); ur is the userRating field
\* of the movie object shown (0: none).
HandleMovieClick(id, ur) ==
  /\ route = "liked"
  /\ ~listShowRatingModal /\ selectedMovie = NoSelection
  /\ selectedMovie' = [id |-> id, userRating |-> ur]
  /\ localUserRating' = IF ur > 0 THEN ur ELSE watchedMovies[id]
  /\ modalShowRatingModal' = FALSE
  /\ UNCHANGED <<watchProps, watchedMovies, ratingMovieId,
                 listShowRatingModal, ratingSubmits,
                 watchLog>>
  /\ RatingFrame

\* LikedMoviesView.handleCloseModal
HandleCloseModal ==
  /\ route = "liked" /\ selectedMovie # NoSelection /\ ~modalShowRatingModal
  /\ selectedMovie' = NoSelection
  /\ localUserRating' = 0
  /\ UNCHANGED <<watchProps, watchedMovies, ratingMovieId,
                 listShowRatingModal, ratingSubmits,
                 modalShowRatingModal, watchLog>>
  /\ RatingFrame

\* MovieModal.handleWatchClick
ModalWatchClick ==
  /\ route = "liked" /\ selectedMovie # NoSelection /\ ~modalShowRatingModal
  /\ modalShowRatingModal' = TRUE
  /\ UNCHANGED <<watchProps, watchedMovies, ratingMovieId,
                 listShowRatingModal, ratingSubmits,
                 selectedMovie, localUserRating, watchLog>>
  /\ RatingFrame

\* MovieModal.handleRatingSubmit; its dialog is rendered without
\* showPreference, so no preference comes with the rating.
ModalRatingSubmit(rating) ==
  /\ route = "liked" /\ selectedMovie # NoSelection /\ modalShowRatingModal
  /\ Len(watchLog) < MaxWatchCalls
  /\ watchLog' = Logged(ModalCall, selectedMovie.id, localUserRating > 0)
  /\ localUserRating' = IF ModalCall = "none" THEN localUserRating ELSE rating
  /\ modalShowRatingModal' = FALSE
  /\ UNCHANGED <<watchProps, watchedMovies, ratingMovieId,
                 listShowRatingModal, ratingSubmits,
                 selectedMovie>>
  /\ RatingFrame

\* A list view right after it mounted, for every combination of callbacks
\* a parent can pass and every watched map fetchWatchedMovies can load
\* (the empty one included).
RatingInit ==
  /\ user = TRUE
  /\ route \in {"liked", "disliked"}
  /\ sessionLikedMovies = <<>>
  /\ sessionDislikedMovies = <<>>
  /\ favoriteMovieIds = {}
  /\ inflight = <<>>
  /\ loading = FALSE
  /\ movies = <<>>
  /\ shouldShowRating = FALSE
  /\ showGameRating = FALSE
  /\ showErrorModal = FALSE
  /\ ratingPending = FALSE
  /\ searches = 0
  /\ SwiperInitial
  /\ swipeTimers = <<>>
  /\ movingIds = {}
  /\ processingIds = {}
  /\ coolDowns = {}
  /\ PrefsIdle
  /\ watchProps \in [onWatch : BOOLEAN, onUpdateWatchedRating : BOOLEAN]
  /\ watchedMovies \in [IDs -> 0..MaxRating]
  /\ ratingMovieId = NoMovie
  /\ listShowRatingModal = FALSE
  /\ ratingSubmits = <<>>
  /\ selectedMovie = NoSelection
  /\ localUserRating = 0
  /\ modalShowRatingModal = FALSE
  /\ watchLog = <<>>
  /\ isPreloading = FALSE
  /\ preloadAbortController = 0
  /\ preloads = <<>>
  /\ movieCache = {}
  /\ FiltersIdle
  /\ CacheIdle
  /\ finishCalls = 0
  /\ dispatched = [i \in 1..MaxLen |-> NoDispatch]
  /\ remoteLog = <<>>
  /\ clickSuppressed = FALSE
  /\ pointerRejected = FALSE
  /\ lastOp = NoOp

RatingNext ==
  \/ \E id \in IDs : HandleWatchClick(id)
  \/ \E r \in Ratings : LikedRatingSubmit(r)
  \/ \E i \in 1..Len(ratingSubmits) : RatingSubmitResume(i)
  \/ \E r \in Ratings : DislikedRatingSubmit(r)
  \/ HandleRatingCancel
  \/ \E id \in IDs, ur \in 0..MaxRating : HandleMovieClick(id, ur)
  \/ HandleCloseModal
  \/ ModalWatchClick
  \/ \E r \in Ratings : ModalRatingSubmit(r)

RatingSpec == RatingInit /\ [][RatingNext]_vars

\* ------------------------------------------------------ HomePage preload
\* preloads[c] is the handlePreloadHover call that created AbortController
\* number c: where it stands (at its fetch, at response.json(), at
\* preloadImages, or done), at which of these its signal was aborted, and
\* whether it wrote to the movie cache.
PreloadOutcomes == {"movies", "empty", "notOk", "throw"}

NewPreload(devMode) ==
  [stage |-> "fetch", devMode |-> devMode, abortedAt |-> "none",
   wrote |-> FALSE, body |-> "none"]

\* AbortController.abort() of controller c; a second abort changes nothing.
Abort(reqs, c) ==
  [k \in 1..Len(reqs) |->
     IF k = c /\ reqs[k].abortedAt = "none"
       THEN [reqs[k] EXCEPT !.abortedAt = reqs[k].stage]
       ELSE reqs[k]]

\* A fetch that was not given the controller's signal
RejectsUnsignalled(r) == FALSE

\* fetch(url, {signal}) and the body read of its response reject with an
\* AbortError once the signal is aborted.
Rejects(r) == r.abortedAt # "none"

\* 'loading-carousel-movies' for the dev button, otherwise
\* movieCacheService.generateSearchCacheKey(preferences, false)
CacheKey(r) ==
  IF r.devMode THEN [kind |-> "carousel", prefs |-> 0]
  ELSE [kind |-> "search", prefs |-> preferences]

\* movieCacheService.setCachedMovies(key, movies): Map.set replaces the
\* entry of that key.  stale records whether the writer's signal had been
\* aborted.
CacheSet(c, r) ==
  {e \in movieCache : e.key # CacheKey(r)}
    \cup {[key |-> CacheKey(r), ctl |-> c, stale |-> r.abortedAt # "none"]}

PreloadFrame ==
  UNCHANGED <<appVars, searchVars, swiperVars, swipeTimers, viewVars,
              prefVars, swipeObs, prefObs, ratingVars, filterVars, cacheVars>>

\* handlePreloadHover up to its first await (onMouseEnter of the two search
\* buttons); it returns at once without a user or while isPreloading.
HandlePreloadHover(devMode) ==
  /\ route = "home"
  /\ user /\ ~isPreloading
  /\ Len(preloads) < MaxPreloads
  /\ isPreloading' = TRUE
  /\ preloadAbortController' = Len(preloads) + 1
  /\ preloads' =
       Append(Abort(preloads, preloadAbortController), NewPreload(devMode))
  /\ UNCHANGED movieCache
  /\ PreloadFrame

\* handlePreloadCancel (onMouseLeave)
HandlePreloadCancel ==
  /\ route = "home"
  /\ preloadAbortController # 0
  /\ preloads' = Abort(preloads, preloadAbortController)
  /\ isPreloading' = FALSE
  /\ UNCHANGED <<preloadAbortController, movieCache>>
  /\ PreloadFrame

\* The stage a preload moves to when its pending promise settles; "done"
\* is the end of the handler, through catch or not.
NextStage(r, outcome) ==
  CASE r.stage = "fetch" ->
         IF Rejects(r) THEN "done"
         ELSE IF outcome \in {"movies", "empty"} THEN "json"
         ELSE "done"
    [] r.stage = "json" ->
         IF Rejects(r) THEN "done"
         ELSE IF r.body = "movies" THEN "images"
         ELSE "done"
    [] OTHER -> "done"

\* handlePreloadHover resumes after one of its awaits.  Reaching the end
\* runs `finally { setIsPreloading(false) }`.
PreloadResume(c, outcome) ==
  LET r == preloads[c]
      to == NextStage(r, outcome)
  IN
  /\ r.stage # "done"
  /\ preloads' =
       [preloads EXCEPT ![c] =
          [stage |-> to, devMode |-> r.devMode, abortedAt |-> r.abortedAt,
           wrote |-> r.wrote \/ (r.stage = "json" /\ to = "images"),
           body |-> IF r.stage = "fetch" THEN outcome ELSE r.body]]
  /\ movieCache' =
       IF r.stage = "json" /\ to = "images" THEN CacheSet(c, r)
       ELSE movieCache
  /\ isPreloading' = IF to = "done" THEN FALSE ELSE isPreloading
  /\ UNCHANGED preloadAbortController
  /\ PreloadFrame

\* The 30 s timeout armed by setCachedMovies deletes the key.
CacheExpire(key) ==
  /\ \E e \in movieCache : e.key = key
  /\ movieCache' = {e \in movieCache : e.key # key}
  /\ UNCHANGED <<isPreloading, preloadAbortController, preloads>>
  /\ PreloadFrame

\* The home page of a logged-in user with nothing preloaded.
PreloadInit ==
  /\ user = TRUE
  /\ route = "home"
  /\ sessionLikedMovies = <<>>
  /\ sessionDislikedMovies = <<>>
  /\ favoriteMovieIds = {}
  /\ inflight = <<>>
  /\ loading = FALSE
  /\ movies = <<>>
  /\ shouldShowRating = FALSE
  /\ showGameRating = FALSE
  /\ showErrorModal = FALSE
  /\ ratingPending = FALSE
  /\ searches = 0
  /\ SwiperInitial
  /\ swipeTimers = <<>>
  /\ movingIds = {}
  /\ processingIds = {}
  /\ coolDowns = {}
  /\ PrefsIdle
  /\ PagesIdle
  /\ finishCalls = 0
  /\ dispatched = [i \in 1..MaxLen |-> NoDispatch]
  /\ remoteLog = <<>>
  /\ clickSuppressed = FALSE
  /\ pointerRejected = FALSE
  /\ lastOp = NoOp

PreloadNext ==
  \/ \E devMode \in BOOLEAN : HandlePreloadHover(devMode)
  \/ HandlePreloadCancel
  \/ \E c \in 1..Len(preloads), o \in PreloadOutcomes : PreloadResume(c, o)
  \/ \E e \in movieCache : CacheExpire(e.key)

PreloadSpec == PreloadInit /\ [][PreloadNext]_vars

\* --------------------------------------------------- list view filters
\* The filter sidebar of LikedMoviesView (DislikedMoviesView holds the same
\* code).  A movie carries the fields the filters, the sort and the keyed
\* render read; 0, "" and {} stand for a value JavaScript treats as absent
\* (undefined, null, 0, NaN, an empty string, no array).
Genres == {"Action", "Drama"}
Years == {1960, 1980}
Votes == 0..MaxVote
AgeRatings == {"PG"}
Keywords == {"heist"}
Languages == {"en"}
Directors == {"Lee"}
TitleOrder == <<"1", "Alien", "Brazil">>      \* localeCompare order
Titles == {TitleOrder[i] : i \in 1..Len(TitleOrder)}
SortOrders == {"title", "year-desc", "year-asc", "rating-desc", "rating-asc"}
NoRange == <<>>                                \* null

Movie(id, title, genres, year, vote, age, kws, lang, dir) ==
  [tmdbId |-> id, title |-> title, genres |-> genres, year |-> year,
   voteAverage |-> vote, ageRating |-> age, keywords |-> kws,
   language |-> lang, director |-> dir]

\* availableFilters, computed from the movies of the view
AvailableGenres == UNION {listMovies[i].genres : i \in 1..Len(listMovies)}
AvailableYears ==
  {listMovies[i].year : i \in 1..Len(listMovies)} \ {0}
AvailableVotes ==
  {listMovies[i].voteAverage : i \in 1..Len(listMovies)} \ {0}
AvailableAgeRatings ==
  {listMovies[i].ageRating : i \in 1..Len(listMovies)} \ {""}
AvailableKeywords == UNION {listMovies[i].keywords : i \in 1..Len(listMovies)}
AvailableLanguages ==
  {listMovies[i].language : i \in 1..Len(listMovies)} \ {""}
AvailableDirectors ==
  {listMovies[i].director : i \in 1..Len(listMovies)} \ {""}
Least(S) == CHOOSE x \in S : \A y \in S : x <= y
Greatest(S) == CHOOSE x \in S : \A y \in S : x >= y
RatingRange ==
  IF AvailableVotes # {} THEN <<Least(AvailableVotes), Greatest(AvailableVotes)>>
  ELSE <<0, DefaultMaxRating>>

\* The filter state a render reads
Selection ==
  [genres |-> selectedGenres, yearRange |-> selectedYearRange,
   ratingRange |-> selectedRatingRange, ageRatings |-> selectedAgeRatings,
   keywords |-> selectedKeywords, languages |-> selectedLanguages,
   directors |-> selectedDirectors]

\* The predicates of the seven filter steps
GenreMatchAll(m, sel) == \A g \in sel.genres : g \in m.genres
GenreMatch(m, sel) == \E g \in m.genres : g \in sel.genres
YearMatch(m, sel) ==
  /\ m.year # 0
  /\ m.year >= sel.yearRange[1] /\ m.year <= sel.yearRange[2]
RatingMatch(m, sel) ==
  /\ m.voteAverage # 0
  /\ m.voteAverage >= sel.ratingRange[1]
  /\ m.voteAverage <= sel.ratingRange[2]
AgeRatingMatch(m, sel) == m.ageRating # "" /\ m.ageRating \in sel.ageRatings
KeywordMatch(m, sel) == \E kw \in m.keywords : kw \in sel.keywords
LanguageMatch(m, sel) == m.language # "" /\ m.language \in sel.languages
DirectorMatch(m, sel) == m.director # "" /\ m.director \in sel.directors

\* The comparator of filtered.sort, as the number it returns
TitleRank(t) == CHOOSE i \in 1..Len(TitleOrder) : TitleOrder[i] = t
YearOf(m) == IF m.year = 0 THEN EpochYear ELSE m.year
Compare(a, b) ==
  CASE sortBy = "title" -> TitleRank(a.title) - TitleRank(b.title)
    [] sortBy = "year-desc" -> YearOf(b) - YearOf(a)
    [] sortBy = "year-asc" -> YearOf(a) - YearOf(b)
    [] sortBy = "rating-desc" -> b.voteAverage - a.voteAverage
    [] sortBy = "rating-asc" -> a.voteAverage - b.voteAverage
    [] OTHER -> 0

\* Array.prototype.sort is stable: an element goes behind every element
\* that was before it and does not compare greater.
RECURSIVE InsertSorted(_, _)
InsertSorted(s, m) ==
  IF s = <<>> THEN <<m>>
  ELSE IF Compare(Head(s), m) > 0 THEN <<m>> \o s
       ELSE <<Head(s)>> \o InsertSorted(Tail(s), m)

RECURSIVE SortMovies(_)
SortMovies(s) ==
  IF s = <<>> THEN <<>>
  ELSE InsertSorted(SortMovies(SubSeq(s, 1, Len(s) - 1)), s[Len(s)])

\* filterAndSortMovies under the selection `sel`
FilterWith(moviesToFilter, sel) ==
  LET byGenre == IF sel.genres # {}
                 THEN SelectSeq(moviesToFilter, LAMBDA m : GenreMatch(m, sel))
                 ELSE moviesToFilter
      byYear == IF sel.yearRange # NoRange
                THEN SelectSeq(byGenre, LAMBDA m : YearMatch(m, sel))
                ELSE byGenre
      byRating == IF sel.ratingRange # NoRange
                  THEN SelectSeq(byYear, LAMBDA m : RatingMatch(m, sel))
                  ELSE byYear
      byAge == IF sel.ageRatings # {}
               THEN SelectSeq(byRating, LAMBDA m : AgeRatingMatch(m, sel))
               ELSE byRating
      byKeyword == IF sel.keywords # {}
                   THEN SelectSeq(byAge, LAMBDA m : KeywordMatch(m, sel))
                   ELSE byAge
      byLanguage == IF sel.languages # {}
                    THEN SelectSeq(byKeyword, LAMBDA m : LanguageMatch(m, sel))
                    ELSE byKeyword
      byDirector == IF sel.directors # {}
                    THEN SelectSeq(byLanguage, LAMBDA m : DirectorMatch(m, sel))
                    ELSE byLanguage
  IN SortMovies(byDirector)

filterAndSortMovies(moviesToFilter) == FilterWith(moviesToFilter, Selection)

\* The memo: recomputed from the movies prop whenever a selection changes
filteredMovies ==
  IF showFilters THEN filterAndSortMovies(listMovies) ELSE listMovies

\* The keyed render of a group: the key of the card at (0-based) index
ValidId(m) == m.tmdbId # 0
SafeKeyBare(m, index) ==
  IF ValidId(m) THEN ToString(m.tmdbId) ELSE ToString(index)
SafeKey(m, index) ==
  IF ValidId(m) THEN ToString(m.tmdbId)
  ELSE group \o "-" \o ToString(index) \o "-" \o m.title

\* toggleGenre and its four twins on a Set
ToggleAddOnly(set, v) == set \cup {v}
Toggle(set, v) == IF v \in set THEN set \ {v} ELSE set \cup {v}

FilterFrame ==
  UNCHANGED <<appVars, searchVars, swiperVars, swipeTimers, viewVars,
              prefVars, swipeObs, prefObs, ratingVars, preloadVars, cacheVars,
              listMovies, showFilters, group>>

\* The sidebar is rendered only with showFilters; a checkbox exists for
\* every available value.
ToggleGenre(g) ==
  /\ showFilters /\ g \in AvailableGenres
  /\ selectedGenres' = Toggle(selectedGenres, g)
  /\ UNCHANGED <<selectedYearRange, selectedRatingRange, selectedAgeRatings,
                 selectedKeywords, selectedLanguages, selectedDirectors, sortBy>>
  /\ FilterFrame

ToggleAgeRating(r) ==
  /\ showFilters /\ r \in AvailableAgeRatings
  /\ selectedAgeRatings' = Toggle(selectedAgeRatings, r)
  /\ UNCHANGED <<selectedGenres, selectedYearRange, selectedRatingRange,
                 selectedKeywords, selectedLanguages, selectedDirectors, sortBy>>
  /\ FilterFrame

ToggleKeyword(k) ==
  /\ showFilters /\ k \in AvailableKeywords
  /\ selectedKeywords' = Toggle(selectedKeywords, k)
  /\ UNCHANGED <<selectedGenres, selectedYearRange, selectedRatingRange,
                 selectedAgeRatings, selectedLanguages, selectedDirectors, sortBy>>
  /\ FilterFrame

ToggleLanguage(l) ==
  /\ showFilters /\ l \in AvailableLanguages
  /\ selectedLanguages' = Toggle(selectedLanguages, l)
  /\ UNCHANGED <<selectedGenres, selectedYearRange, selectedRatingRange,
                 selectedAgeRatings, selectedKeywords, selectedDirectors, sortBy>>
  /\ FilterFrame

ToggleDirector(d) ==
  /\ showFilters /\ d \in AvailableDirectors
  /\ selectedDirectors' = Toggle(selectedDirectors, d)
  /\ UNCHANGED <<selectedGenres, selectedYearRange, selectedRatingRange,
                 selectedAgeRatings, selectedKeywords, selectedLanguages, sortBy>>
  /\ FilterFrame

\* The "From" / "To" year inputs (rendered with more than one year); val = 0
\* is the emptied input.
SetYearFrom(val) ==
  /\ showFilters /\ Cardinality(AvailableYears) > 1
  /\ selectedYearRange' =
       IF val = 0 THEN NoRange
       ELSE <<val, IF selectedYearRange # NoRange THEN selectedYearRange[2]
                   ELSE Greatest(AvailableYears)>>
  /\ UNCHANGED <<selectedGenres, selectedRatingRange, selectedAgeRatings,
                 selectedKeywords, selectedLanguages, selectedDirectors, sortBy>>
  /\ FilterFrame

SetYearTo(val) ==
  /\ showFilters /\ Cardinality(AvailableYears) > 1
  /\ selectedYearRange' =
       IF val = 0 THEN NoRange
       ELSE <<IF selectedYearRange # NoRange THEN selectedYearRange[1]
              ELSE Least(AvailableYears), val>>
  /\ UNCHANGED <<selectedGenres, selectedRatingRange, selectedAgeRatings,
                 selectedKeywords, selectedLanguages, selectedDirectors, sortBy>>
  /\ FilterFrame

\* The "Min" / "Max" rating inputs; `typed` tells a number from the emptied
\* input (parseFloat gives NaN).  `prev?.[1] || ...` skips a stored 0.
SetRatingMin(typed, val) ==
  /\ showFilters /\ RatingRange[1] < RatingRange[2]
  /\ selectedRatingRange' =
       IF ~typed THEN NoRange
       ELSE <<val, IF selectedRatingRange # NoRange /\ selectedRatingRange[2] # 0
                   THEN selectedRatingRange[2] ELSE RatingRange[2]>>
  /\ UNCHANGED <<selectedGenres, selectedYearRange, selectedAgeRatings,
                 selectedKeywords, selectedLanguages, selectedDirectors, sortBy>>
  /\ FilterFrame

SetRatingMax(typed, val) ==
  /\ showFilters /\ RatingRange[1] < RatingRange[2]
  /\ selectedRatingRange' =
       IF ~typed THEN NoRange
       ELSE <<IF selectedRatingRange # NoRange /\ selectedRatingRange[1] # 0
              THEN selectedRatingRange[1] ELSE RatingRange[1], val>>
  /\ UNCHANGED <<selectedGenres, selectedYearRange, selectedAgeRatings,
                 selectedKeywords, selectedLanguages, selectedDirectors, sortBy>>
  /\ FilterFrame

SetSortBy(order) ==
  /\ showFilters
  /\ sortBy' = order
  /\ UNCHANGED <<selectedGenres, selectedYearRange, selectedRatingRange,
                 selectedAgeRatings, selectedKeywords, selectedLanguages,
                 selectedDirectors>>
  /\ FilterFrame

ClearFilters ==
  /\ showFilters
  /\ selectedGenres' = {}
  /\ selectedYearRange' = NoRange
  /\ selectedRatingRange' = NoRange
  /\ selectedAgeRatings' = {}
  /\ selectedKeywords' = {}
  /\ selectedLanguages' = {}
  /\ selectedDirectors' = {}
  /\ sortBy' = "title"
  /\ FilterFrame

\* Everything but the list view at rest
ListViewInit ==
  /\ user = TRUE
  /\ route = "liked"
  /\ sessionLikedMovies = <<>>
  /\ sessionDislikedMovies = <<>>
  /\ favoriteMovieIds = {}
  /\ inflight = <<>>
  /\ loading = FALSE
  /\ movies = <<>>
  /\ shouldShowRating = FALSE
  /\ showGameRating = FALSE
  /\ showErrorModal = FALSE
  /\ ratingPending = FALSE
  /\ searches = 0
  /\ SwiperInitial
  /\ swipeTimers = <<>>
  /\ movingIds = {}
  /\ processingIds = {}
  /\ coolDowns = {}
  /\ PrefsIdle
  /\ DialogsIdle
  /\ SelectionsIdle
  /\ CacheIdle
  /\ finishCalls = 0
  /\ dispatched = [i \in 1..MaxLen |-> NoDispatch]
  /\ remoteLog = <<>>
  /\ clickSuppressed = FALSE
  /\ pointerRejected = FALSE
  /\ lastOp = NoOp

\* The movies a view may be given: persisted records, each filter field
\* present or absent.  Titles run against the IDs, so the title order is not
\* the order of arrival.
Present(x, absent) == IF x = absent THEN 0 ELSE 1
FieldsPresent(m) ==
  Present(m.genres, {}) + Present(m.year, 0) + Present(m.voteAverage, 0)
    + Present(m.ageRating, "") + Present(m.keywords, {})
    + Present(m.language, "") + Present(m.director, "")
RECURSIVE FieldsOfList(_)
FieldsOfList(s) ==
  IF s = <<>> THEN 0 ELSE FieldsPresent(Head(s)) + FieldsOfList(Tail(s))
FilterMovies ==
  {m \in {Movie(id, TitleOrder[Len(TitleOrder) - id + 1], gs, y, v, age, kws,
                lang, dir) :
            id \in IDs, gs \in SUBSET Genres, y \in Years \cup {0},
            v \in Votes, age \in AgeRatings \cup {""},
            kws \in SUBSET Keywords, lang \in Languages \cup {""},
            dir \in Directors \cup {""}} :
     FieldsPresent(m) <= MaxFields}

\* A list of distinct valid IDs with at most MaxFields filter fields present
FilterInit ==
  /\ ListViewInit
  /\ group = "movie"
  /\ showFilters \in BOOLEAN
  /\ listMovies \in UNION {[1..n -> FilterMovies] : n \in 1..MaxCards}
  /\ \A i, j \in 1..Len(listMovies) :
       i < j => listMovies[i].tmdbId < listMovies[j].tmdbId
  /\ FieldsOfList(listMovies) <= MaxFields

FilterNext ==
  \/ \E g \in Genres : ToggleGenre(g)
  \/ \E r \in AgeRatings : ToggleAgeRating(r)
  \/ \E k \in Keywords : ToggleKeyword(k)
  \/ \E l \in Languages : ToggleLanguage(l)
  \/ \E d \in Directors : ToggleDirector(d)
  \/ \E val \in Years \cup {0} : SetYearFrom(val)
  \/ \E val \in Years \cup {0} : SetYearTo(val)
  \/ \E typed \in BOOLEAN, val \in Votes : SetRatingMin(typed, val)
  \/ \E typed \in BOOLEAN, val \in Votes : SetRatingMax(typed, val)
  \/ \E order \in SortOrders : SetSortBy(order)
  \/ ClearFilters

FilterSpec == FilterInit /\ [][FilterNext]_vars

\* Lists for the keyed render: records whose ID may be absent or repeated,
\* with a title that may look like a number.
KeyTitles == {"1", "Alien"}
KeyMovies ==
  {Movie(id, t, gs, 0, 0, "", {}, "", "") :
     id \in 0..MaxId, t \in KeyTitles, gs \in {{}, {"Action"}}}

KeyInit ==
  /\ ListViewInit
  /\ group \in {"movie", "fav"}
  /\ showFilters \in BOOLEAN
  /\ listMovies \in UNION {[1..n -> KeyMovies] : n \in 1..MaxKeyCards}

KeyNext ==
  \/ \E g \in Genres : ToggleGenre(g)
  \/ \E order \in SortOrders : SetSortBy(order)
  \/ ClearFilters

KeySpec == KeyInit /\ [][KeyNext]_vars

\* ------------------------------------------- resumed session specification
\* A session that is resumed from its summary: the user moves disliked
\* movies back to the liked list, keeps searching and decides with the
\* buttons.
ResumeInit == SummaryInit /\ favoriteMovieIds = {}

ResumeNext ==
  \/ \E id \in IDs : MoveToLikedClick(id)
  \/ \E i \in 1..Len(inflight), o \in Outcomes : RemoteSettle(i, o)
  \/ \E c \in coolDowns : CoolDownTimeout(c)
  \/ HandleKeepSearching
  \/ HandleSubmitPreferences
  \/ \E q \in Queues : FetchMoviesResolve("movies", q)
  \/ \E d \in {"left", "right"} : ButtonClick(d)
  \/ \E i \in 1..Len(swipeTimers) : SwipeTimeout(i)
  \/ HandleSkipRating

ResumeSpec == ResumeInit /\ [][ResumeNext]_vars

\* ------------------------------------------------------ movieCacheService
\* The service on a clock of 10 s ticks.  A list is one of 1..MaxId (0: no
\* entry); an entry's age is the time since its timestamp, counted up to
\* one tick past the expiry.  Callers (HomePage.handlePreloadHover,
\* MovieCarousel, DislikedMoviesView) store under a key without asking
\* whether the key is cached.
CacheFrame ==
  UNCHANGED <<appVars, searchVars, swiperVars, swipeTimers, viewVars,
              prefVars, swipeObs, prefObs, ratingVars, preloadVars, filterVars>>

\* setCachedMovies arms one more timeout and keeps the pending ones
TimersAfterWrite(key) ==
  Append(expiryTimers, [key |-> key, left |-> ExpiryTicks])

\* setCachedMovies(key, movies) with the default expiryMs
SetCachedMovies(key, list) ==
  /\ Len(expiryTimers) < MaxCacheTimers
  /\ cacheMap' = [cacheMap EXCEPT ![key] = [list |-> list, age |-> 0]]
  /\ expiryTimers' = TimersAfterWrite(key)
  /\ written' = [written EXCEPT ![key] = [list |-> list, age |-> 0]]
  /\ CacheFrame

\* The callback of a timeout that is due: this.cache.delete(key)
ExpiryTimeout(i) ==
  /\ expiryTimers[i].left = 0
  /\ cacheMap' = [cacheMap EXCEPT ![expiryTimers[i].key] = NoEntry]
  /\ expiryTimers' = RemoveAt(expiryTimers, i)
  /\ UNCHANGED written
  /\ CacheFrame

\* What getCachedMovies(key) returns: null (0) without an entry or when
\* Date.now() - timestamp > expiryMs
Lookup(key) ==
  IF cacheMap[key].list = 0 \/ cacheMap[key].age > ExpiryTicks THEN 0
  ELSE cacheMap[key].list

\* getCachedMovies(key): an expired entry is deleted on the way
GetCachedMovies(key) ==
  /\ cacheMap' = IF cacheMap[key].list # 0 /\ cacheMap[key].age > ExpiryTicks
                THEN [cacheMap EXCEPT ![key] = NoEntry] ELSE cacheMap
  /\ cacheMap' # cacheMap
  /\ UNCHANGED <<expiryTimers, written>>
  /\ CacheFrame

\* clearCache(key)
ClearCache(key) ==
  /\ cacheMap[key].list # 0
  /\ cacheMap' = [cacheMap EXCEPT ![key] = NoEntry]
  /\ written' = [written EXCEPT ![key] = NoEntry]
  /\ UNCHANGED expiryTimers
  /\ CacheFrame

\* 10 s pass.  A timeout never runs early; the event loop may run it late,
\* so a due timeout can still be pending when the clock moves on.
Older(e) ==
  IF e.list = 0 THEN e ELSE [e EXCEPT !.age = Min(@ + 1, ExpiryTicks + 1)]

CacheTick ==
  /\ \E k \in CacheKeys : cacheMap[k].list # 0 \/ written[k].list # 0
  /\ cacheMap' = [k \in CacheKeys |-> Older(cacheMap[k])]
  /\ written' = [k \in CacheKeys |-> Older(written[k])]
  /\ expiryTimers' =
       [i \in 1..Len(expiryTimers) |->
          [expiryTimers[i] EXCEPT !.left = IF @ > 0 THEN @ - 1 ELSE 0]]
  /\ CacheFrame

\* The service is a module singleton: it starts empty on whichever page
\* is loaded first
CacheInit ==
  /\ ListViewInit
  /\ FiltersIdle

CacheNext ==
  \/ \E k \in CacheKeys, l \in IDs : SetCachedMovies(k, l)
  \/ \E i \in 1..Len(expiryTimers) : ExpiryTimeout(i)
  \/ \E k \in CacheKeys : GetCachedMovies(k)
  \/ \E k \in CacheKeys : ClearCache(k)
  \/ CacheTick

CacheSpec == CacheInit /\ [][CacheNext]_vars

\* ------------------------------------------------- release specification
\* Drag offsets around the 100 px threshold and on both sides of the
\* diagonal |x| = |y|.
OffXs == {-150, -101, -100, -99, 0, 99, 100, 101, 150, 200}
OffYs == {-200, -150, -101, -100, -99, 0, 99, 150, 200, 250}

\* A drag in progress on the first card of the queue <<1, 2>>: the state
\* after handleMouseDown / handleTouchStart at (20, 0) and a move that left
\* dragOffset at any grid point.
ReleaseInit ==
  /\ user = TRUE
  /\ route = "search"
  /\ sessionLikedMovies = <<>>
  /\ sessionDislikedMovies = <<>>
  /\ favoriteMovieIds = {}
  /\ inflight = <<>>
  /\ loading = FALSE
  /\ movies = <<1, 2>>
  /\ shouldShowRating = FALSE
  /\ showGameRating = FALSE
  /\ showErrorModal = FALSE
  /\ ratingPending = FALSE
  /\ searches = 1
  /\ currentIndex = 0
  /\ swipeDirection = "none"
  /\ isDragging = TRUE
  /\ dragOffset \in [x : OffXs, y : OffYs]
  /\ startPos = [x |-> 20, y |-> 0]
  /\ isAnimating = FALSE
  /\ showRatingModal = FALSE
  /\ pendingWatchMovie = NoMovie
  /\ swipeTimers = <<>>
  /\ movingIds = {}
  /\ processingIds = {}
  /\ coolDowns = {}
  /\ PrefsIdle
  /\ PagesIdle
  /\ finishCalls = 0
  /\ dispatched = [i \in 1..MaxLen |-> NoDispatch]
  /\ remoteLog = <<>>
  /\ clickSuppressed = FALSE
  /\ pointerRejected = FALSE
  /\ lastOp = NoOp

ReleaseNext ==
  \/ HandleMouseUp
  \/ HandleTouchEnd
  \/ \E i \in 1..Len(swipeTimers) : SwipeTimeout(i)
  \/ HandleWatchCancel

ReleaseSpec == ReleaseInit /\ [][ReleaseNext]_vars

\* ------------------------------------------------------ session properties
Positions == 1..MaxLen

\* Pending timeouts armed by the mounted swiper for queue position p
Pending(p) ==
  {i \in 1..Len(swipeTimers) :
     swipeTimers[i].inst = searches /\ swipeTimers[i].idx + 1 = p}

CommitInFlight == SwiperMounted /\ \E p \in Positions : Pending(p) # {}

Decided(p) == dispatched[p].like + dispatched[p].dislike

RECURSIVE SumDecided(_)
SumDecided(p) == IF p = 0 THEN 0 ELSE Decided(p) + SumDecided(p - 1)

Committed(p) == Decided(p) + dispatched[p].watch

RECURSIVE SumCommitted(_)
SumCommitted(p) == IF p = 0 THEN 0 ELSE Committed(p) + SumCommitted(p - 1)

\* The release classification with the dominant-axis condition on the
\* horizontal directions
StatedRelease(off) ==
  IF Abs(off.x) > Threshold /\ Abs(off.x) >= Abs(off.y)
    THEN (IF off.x > 0 THEN "right" ELSE "left")
  ELSE IF off.y < -Threshold /\ Abs(off.x) < Threshold THEN "up"
  ELSE "cancel"

\* C13: on release a gesture commits "left" or "right" (by sign) exactly
\* when |horizontal offset| > 100 and |horizontal| >= |vertical|; it commits
\* "up" exactly when vertical offset < -100 and |horizontal| < 100; in every
\* other case nothing is committed and the offset returns to (0, 0).
C13_ReleaseClassification ==
  [][(PointerUp /\ ~DragIgnored) =>
       IF StatedRelease(dragOffset) = "cancel"
         THEN /\ swipeDirection' = "none"
              /\ swipeTimers' = swipeTimers
              /\ dragOffset' = [x |-> 0, y |-> 0]
         ELSE /\ swipeDirection' = StatedRelease(dragOffset)
              /\ Len(swipeTimers') = Len(swipeTimers) + 1]_vars

\* C11: while one swiper stays mounted, every step moves the cursor forward
\* by exactly the number of decisions committed in it (a like, a dislike or
\* a completed watch rating each count one), so the cursor never decreases.
C11_CursorAdvancesPerDecision ==
  [][(SwiperMounted /\ SwiperMounted' /\ searches' = searches) =>
       /\ currentIndex' >= currentIndex
       /\ currentIndex' - currentIndex
            = SumCommitted(MaxLen)' - SumCommitted(MaxLen)]_vars

\* Endpoint and ID of every call in remoteLog, in issue order
Calls ==
  [k \in 1..Len(remoteLog) |-> [op |-> remoteLog[k].op, id |-> remoteLog[k].id]]

RemoteKind(dir) == IF dir = "right" THEN "like" ELSE "dislike"

\* The scenario of the first search: queue [1, 2], right on 1, left on 2
ScenarioCommitted ==
  /\ searches = 1 /\ route = "search" /\ movies = <<1, 2>>
  /\ dispatched[1].like = 1 /\ dispatched[2].dislike = 1

ScenarioOutcome ==
  /\ sessionLikedMovies = <<1>>
  /\ sessionDislikedMovies = <<2>>
  /\ Calls = <<[op |-> "like", id |-> 1], [op |-> "dislike", id |-> 2]>>

\* C12: for a logged-in user the timeout of a right or left commit issues
\* exactly one remote mutation, of the matching kind and for the card's ID,
\* an up commit issues none, nothing else issues one, and the scenario
\* (queue [1, 2], right on 1, left on 2) ends with liked = [1],
\* disliked = [2] and the two calls like(1), dislike(2).
C12_OneRemoteCallPerDecision ==
  [][/\ \A i \in 1..Len(swipeTimers) :
          SwipeTimeout(i) =>
            Calls' =
              IF swipeTimers[i].dir = "up" THEN Calls
              ELSE Append(Calls, [op |-> RemoteKind(swipeTimers[i].dir),
                                      id |-> swipeTimers[i].movie])
     /\ (Calls' # Calls /\ Calls' # <<>>) =>
          \E i \in 1..Len(swipeTimers) : SwipeTimeout(i)
     /\ (ScenarioCommitted => ScenarioOutcome)']_vars

C12_Witness ==
  /\ user
  /\ ScenarioCommitted
  /\ ScenarioOutcome
  /\ currentIndex = 2

\* C14: at all times every ID of the favourite-membership set is also in
\* the liked collection (a removal from liked, by a move to disliked or by
\* clearing the liked list, takes the ID out of the favourites too).
C14_FavoritesWithinLiked == favoriteMovieIds \subseteq IdSet(sessionLikedMovies)

\* C15: a favourite click changes the client-side favourite-membership set
\* in the step of the click itself, before the server's answer: an add puts
\* the ID in, a remove takes it out.
C15_FavoriteToggleOptimistic ==
  [][\A id \in IDs :
       FavoriteClick(id) =>
         (id \in favoriteMovieIds') = (id \notin favoriteMovieIds)]_vars

C17_FailureKeepsAndLogs ==
  [][\A i \in 1..Len(remoteLog), o \in Outcomes :
       LikeSettle(i, o) =>
         /\ sessionLikedMovies' = sessionLikedMovies
         /\ sessionDislikedMovies' = sessionDislikedMovies
         /\ remoteLog[i].op = "like" =>
              Has(sessionLikedMovies', remoteLog[i].id)
         /\ remoteLog[i].op = "dislike" =>
              Has(sessionDislikedMovies', remoteLog[i].id)
         /\ o = "throw" => remoteLog'[i].logged]_vars

C17_Witness ==
  \E k \in 1..Len(remoteLog) :
    /\ remoteLog[k].op = "like"
    /\ remoteLog[k].status = "throw"
    /\ remoteLog[k].logged
    /\ Has(sessionLikedMovies, remoteLog[k].id)

\* C18: a step that starts a new search or navigates home leaves both
\* session lists empty, so they are empty when the next swipe session begins.
C18_SessionSetsCleared ==
  [][(HandleSubmitPreferences \/ HandleKeepSearching \/ HandleLogoClick) =>
       /\ sessionLikedMovies' = <<>>
       /\ sessionDislikedMovies' = <<>>]_vars

\* C19: a rating submitted for a movie that the local watched cache
\* records as watched issues an update-rating call and no create-watched
\* call; one submitted for a movie without an entry issues a create-watched
\* call and no update-rating call.
StatedCall(id, had) ==
  <<WatchCall(IF had THEN "update" ELSE "create", id, had)>>

C19_RatingCallByCache ==
  [][\A r \in Ratings :
       /\ (LikedRatingSubmit(r) \/ DislikedRatingSubmit(r)) =>
            watchLog' = watchLog
                          \o StatedCall(ratingMovieId,
                                         watchedMovies[ratingMovieId] > 0)
       /\ ModalRatingSubmit(r) =>
            watchLog' = watchLog
                          \o StatedCall(selectedMovie.id,
                                         localUserRating > 0)]_vars

\* With both callbacks passed, every submit calls the one the cache selects.
RatingCallWhenWired ==
  [][watchProps = [onWatch |-> TRUE, onUpdateWatchedRating |-> TRUE] =>
       \A r \in Ratings :
         /\ (LikedRatingSubmit(r) \/ DislikedRatingSubmit(r)) =>
              watchLog' = watchLog
                            \o StatedCall(ratingMovieId,
                                           watchedMovies[ratingMovieId] > 0)
         /\ ModalRatingSubmit(r) =>
              watchLog' = watchLog
                            \o StatedCall(selectedMovie.id,
                                           localUserRating > 0)]_vars

\* C20: hovering away while a preload has not resolved aborts its request,
\* and no preload whose signal was aborted ever writes to the movie cache.
C20_CancelledPreloadNotCached ==
  [][/\ HandlePreloadCancel =>
          \A c \in 1..Len(preloads) :
            preloads[c].stage \in {"fetch", "json"} =>
              preloads'[c].abortedAt # "none"
     /\ \A e \in movieCache' : ~e.stale
     /\ \A c \in 1..Len(preloads') :
          (preloads'[c].abortedAt \in {"fetch", "json"}) => ~preloads'[c].wrote]_vars

C20_Witness ==
  \E c \in 1..Len(preloads) :
    /\ preloads[c].abortedAt = "fetch"
    /\ preloads[c].stage = "done"
    /\ ~preloads[c].wrote
    /\ \A e \in movieCache : e.ctl # c

\* C21: when the search fetch answers 503 with code TMDB_UNAVAILABLE the user
\* is shown the "Service Unavailable" dialog.
C21_UnavailableShowsModal ==
  [][(\E q \in Queues : FetchMoviesResolve("unavailable", q)) =>
       ErrorModalShown']_vars

\* C22: when the initial catalog fetch throws the user is shown the error
\* dialog, and closing the dialog leads to the preference-entry screen.
C22_ThrowShowsDismissibleModal ==
  [][/\ (\E q \in Queues : FetchMoviesResolve("throw", q)) =>
          ErrorModalShown'
     /\ ErrorModalClose => route' = "home"]_vars

\* The selection after one more click on the checkbox of value v in category
\* cat, as the five toggle handlers compute it.
Retoggled(cat, v) ==
  CASE cat = "genres" -> [Selection EXCEPT !.genres = Toggle(@, v)]
    [] cat = "ageRatings" -> [Selection EXCEPT !.ageRatings = Toggle(@, v)]
    [] cat = "keywords" -> [Selection EXCEPT !.keywords = Toggle(@, v)]
    [] cat = "languages" -> [Selection EXCEPT !.languages = Toggle(@, v)]
    [] cat = "directors" -> [Selection EXCEPT !.directors = Toggle(@, v)]

ToggleStep(cat, v) ==
  CASE cat = "genres" -> ToggleGenre(v)
    [] cat = "ageRatings" -> ToggleAgeRating(v)
    [] cat = "keywords" -> ToggleKeyword(v)
    [] cat = "languages" -> ToggleLanguage(v)
    [] cat = "directors" -> ToggleDirector(v)

ToggleValues ==
  [genres |-> Genres, ageRatings |-> AgeRatings, keywords |-> Keywords,
   languages |-> Languages, directors |-> Directors]

\* C23: after a filter value has been toggled, toggling the same value once
\* more displays exactly the list displayed before the first toggle.
C23_ToggleTwiceRestores ==
  [][\A cat \in DOMAIN ToggleValues : \A v \in ToggleValues[cat] :
       ToggleStep(cat, v) =>
         FilterWith(listMovies, Retoggled(cat, v))' = filteredMovies]_vars

\* A value is selected and hides a movie of the list
C23_Witness ==
  /\ showFilters
  /\ selectedGenres # {}
  /\ Len(filteredMovies) < Len(listMovies)

\* What a movie offers to each category, and what each category selects
ValuesOf(m) ==
  [genres |-> m.genres, year |-> {m.year} \ {0},
   rating |-> {m.voteAverage} \ {0}, ageRatings |-> {m.ageRating} \ {""},
   keywords |-> m.keywords, languages |-> {m.language} \ {""},
   directors |-> {m.director} \ {""}]

RangeValues(r) == IF r = NoRange THEN {} ELSE r[1]..r[2]

SelectedValues ==
  [genres |-> selectedGenres, year |-> RangeValues(selectedYearRange),
   rating |-> RangeValues(selectedRatingRange),
   ageRatings |-> selectedAgeRatings, keywords |-> selectedKeywords,
   languages |-> selectedLanguages, directors |-> selectedDirectors]

ActiveCategories ==
  {c \in {"genres", "ageRatings", "keywords", "languages", "directors"} :
     SelectedValues[c] # {}}
    \cup (IF selectedYearRange # NoRange THEN {"year"} ELSE {})
    \cup (IF selectedRatingRange # NoRange THEN {"rating"} ELSE {})

MatchesSelection(m) ==
  \A c \in ActiveCategories : SelectedValues[c] \cap ValuesOf(m)[c] # {}

\* C24: a movie of the list is displayed exactly when it matches, in every
\* category with a selection, at least one selected value of that category.
C24_AndAcrossOrWithin ==
  showFilters =>
    \A i \in 1..Len(listMovies) :
      Has(filteredMovies, listMovies[i]) <=> MatchesSelection(listMovies[i])

\* Two categories have a selection; one movie passes both, another is hidden
C24_Witness ==
  /\ showFilters
  /\ Cardinality(ActiveCategories) >= 2
  /\ Len(filteredMovies) = 1
  /\ Len(listMovies) = 2

\* C25: in the keyed render of a group the key of a card without a valid
\* numeric ID differs from the key of every card with one.
C25_FallbackKeyNeverCollides ==
  \A i, j \in 1..Len(filteredMovies) :
    (~ValidId(filteredMovies[i]) /\ ValidId(filteredMovies[j])) =>
      SafeKey(filteredMovies[i], i - 1) # SafeKey(filteredMovies[j], j - 1)

\* Two malformed cards are rendered next to a valid one
C25_Witness ==
  /\ Len(filteredMovies) = 3
  /\ Cardinality({i \in 1..3 : ~ValidId(filteredMovies[i])}) = 2
  /\ \E i \in 1..3 : filteredMovies[i].title = "1"

\* Occurrences of id in a session list
Count(list, id) == Cardinality({k \in 1..Len(list) : list[k] = id})

\* C26: liking a card whose ID is already in the session liked list leaves
\* the list as it is, holding the ID exactly once.
C26_RelikeIsNoOp ==
  [][\A i \in 1..Len(swipeTimers) : \A id \in IDs :
       (/\ swipeTimers[i].dir = "right"
        /\ swipeTimers[i].movie = id
        /\ Has(sessionLikedMovies, id)
        /\ SwipeTimeout(i)) =>
         /\ sessionLikedMovies' = sessionLikedMovies
         /\ Count(sessionLikedMovies', id) = 1]_vars

\* C27: a preference write issued by a flush point (logout, opening the
\* profile view, page unload) is sent only after the initial preference load
\* has completed.
C27_FlushAfterLoad ==
  lastSend.kind \in FlushPoints => lastSend.loaded

\* C28: once an "up" commit has opened the rating modal, submitting a rating
\* advances the cursor by one and re-enables swiping, and cancelling
\* re-enables swiping on the same card.
C28_RatingModalReleasesSwiper ==
  [][/\ HandleWatchSubmit =>
          /\ currentIndex' = currentIndex + 1
          /\ ~showRatingModal' /\ ~SwipeBusy'
     /\ HandleWatchCancel =>
          /\ currentIndex' = currentIndex
          /\ ~showRatingModal' /\ ~SwipeBusy']_vars

\* C29: a marker set by a favourite or move click is cleared again once the
\* remote call has settled, with any outcome, and the cool-down has run.
C29_MarkerCleared ==
  \A id \in IDs :
    /\ (id \in processingIds) ~> (id \notin processingIds)
    /\ (id \in movingIds) ~> (id \notin movingIds)

\* A marker is waiting for its cool-down after a call that failed
C29_Witness ==
  \E c \in coolDowns :
    /\ ~lastOp.ok /\ lastOp.id = c.id /\ CoolDownKind(lastOp.op) = c.kind
    /\ c.id \in (IF c.kind = "moving" THEN movingIds ELSE processingIds)

\* C30: a list stored under a key is returned by getCachedMovies(key) for
\* the whole of its expiry window unless the key was cleared, also when the
\* key had been written before.
C30_CachedForItsWindow ==
  \A k \in CacheKeys :
    (written[k].list # 0 /\ written[k].age < ExpiryTicks) =>
      Lookup(k) = written[k].list

\* C1: for a queue of N >= 1 cards onFinish is called exactly once, after the
\* Nth committed decision and never before, however often the swiper or its
\* parent renders afterwards.
C1_FinishExactlyOnce ==
  /\ finishCalls <= 1
  /\ finishCalls > 0 => SumDecided(MaxLen) = Len(movies)
  /\ (SwiperMounted /\ FinishCondition(currentIndex)) => finishCalls = 1

\* C2: no catalog ID is in the session liked list and in the session disliked
\* list at the same time.
C2_SessionSetsDisjoint ==
  IdSet(sessionLikedMovies) \cap IdSet(sessionDislikedMovies) = {}

\* C5: while a commit animation is in flight every gesture start is rejected
\* (the card is never being dragged, the start position is not taken), every
\* move is ignored (the offset stays) and no second commit begins for the
\* card (at most one timeout of the mounted swiper is pending for it).
C5_GesturesRejectedInFlight ==
  [][CommitInFlight =>
       /\ ~isDragging'
       /\ CommitInFlight' =>
            /\ dragOffset' = dragOffset
            /\ startPos' = startPos
            /\ \A p \in Positions : Cardinality(Pending(p))' <= 1]_vars

C5_Witness ==
  /\ CommitInFlight
  /\ pointerRejected
  /\ ~isDragging

\* C6: a release 150 px to the right commits "right" exactly once: while its
\* timeout is pending it is the only one of the card and nothing has been
\* dispatched for the card; once it has fired, exactly one like and no
\* dislike was dispatched for the card, and the cursor has advanced by one
\* for every dispatched decision.
C6_DragRightCommitsOnce ==
  /\ \A p \in Positions :
       \A i \in Pending(p) :
         (swipeTimers[i].origin = "release" /\ swipeTimers[i].ox = 150) =>
           /\ swipeTimers[i].dir = "right"
           /\ Pending(p) = {i}
           /\ Decided(p) = 0
           /\ SwiperMounted => currentIndex = p - 1
  /\ \A p \in Positions :
       dispatched[p].rel150 =>
         /\ dispatched[p].like = 1
         /\ dispatched[p].dislike = 0
         /\ Pending(p) = {}
  /\ SwiperMounted => currentIndex = SumDecided(MaxLen)

C6_Witness ==
  /\ SwiperMounted
  /\ \E p \in Positions :
       /\ dispatched[p].rel150
       /\ dispatched[p].like = 1
       /\ currentIndex = p
  /\ pointerRejected

\* C7: a second click on the like button while the first is being processed
\* is dropped: for one card at most one like is ever issued or pending, and
\* the dropped click raises no error modal.
C7_OneLikePerCard ==
  /\ \A p \in Positions :
       dispatched[p].like
         + Cardinality({i \in Pending(p) : swipeTimers[i].dir = "right"}) <= 1
  /\ clickSuppressed => ~showErrorModal

C7_Witness ==
  /\ SwiperMounted
  /\ clickSuppressed
  /\ \E p \in Positions :
       /\ dispatched[p].like = 1
       /\ currentIndex = p
       /\ \E k \in 1..Len(remoteLog) :
            Calls[k] = [op |-> "like", id |-> movies[p]]
  /\ ~showErrorModal


\* ------------------------------------------------- summary view properties
Moves == {"moveToDisliked", "moveToLiked"}

InBoth(id) == Has(sessionLikedMovies, id) /\ Has(sessionDislikedMovies, id)

\* C3: the step in which a move to disliked of an ID that was a favourite
\* when it was clicked is confirmed by the server leaves the ID out of the
\* favourites, out of the liked list and in the disliked list.
C3_MoveFavoriteToDisliked ==
  [][\A i \in 1..Len(inflight) :
       (/\ inflight[i].op = "moveToDisliked"
        /\ inflight[i].wasFav
        /\ RemoteSettle(i, "ok")) =>
         /\ inflight[i].id \notin favoriteMovieIds'
         /\ ~Has(sessionLikedMovies', inflight[i].id)
         /\ Has(sessionDislikedMovies', inflight[i].id)]_vars

C3_Witness ==
  /\ lastOp.op = "moveToDisliked" /\ lastOp.ok /\ lastOp.wasFav
  /\ lastOp.id \notin favoriteMovieIds
  /\ ~Has(sessionLikedMovies, lastOp.id)
  /\ Has(sessionDislikedMovies, lastOp.id)

\* C8: the step in which a move to liked or a move to disliked fails (the
\* response is not ok, or the request throws) changes none of the three
\* collections, so it never puts the card into two of them at once.
C8_FailedMoveKeepsCollections ==
  [][\A i \in 1..Len(inflight), o \in Outcomes \ {"ok"}, id \in IDs :
       (inflight[i].op \in Moves /\ inflight[i].id = id /\ RemoteSettle(i, o))
         => /\ sessionLikedMovies' = sessionLikedMovies
            /\ sessionDislikedMovies' = sessionDislikedMovies
            /\ favoriteMovieIds' = favoriteMovieIds
            /\ InBoth(id)' => InBoth(id)]_vars

C8_Witness ==
  /\ lastOp.op \in Moves /\ ~lastOp.ok
  /\ ~InBoth(lastOp.id)
  /\ Has(sessionLikedMovies, lastOp.id) \/ Has(sessionDislikedMovies, lastOp.id)
  /\ route = "summary"


\* ---------------------------------------------------- preference properties
\* C4: while preferencesLoaded is false no auto-save timer is armed and no
\* auto-save write is issued, whatever is done to the preference object.
C4_NoAutoSaveBeforeLoaded ==
  /\ saveTimer.armed => preferencesLoaded
  /\ lastSend.kind = "auto" => lastSend.loaded

C4_Witness ==
  /\ user /\ ~preferencesLoaded
  /\ mutatedUnloaded
  /\ quiet >= DebounceTicks
  /\ ~saveTimer.armed
  /\ lastSend.kind # "auto"

C10_DebounceRestarts ==
  [][/\ \A v \in Prefs :
          (user /\ preferencesLoaded /\ SetPreferences(v)) =>
            saveTimer' = [armed |-> TRUE, left |-> DebounceTicks, prefs |-> v]
     /\ \A ok \in BOOLEAN :
          AutoSaveTimeout(ok) =>
            /\ quiet >= DebounceTicks
            /\ lastSend'.prefs = preferences]_vars

C10_Witness ==
  /\ lastSend.kind = "auto"
  /\ lastSend.cancelled
  /\ lastSend.quiet >= DebounceTicks
  /\ lastSend.prefs = preferences

=============================================================================
